---------------------------- MODULE Spec2Model ----------------------------
(***************************************************************************)
(* Document parsing and educational content classification pipeline of     *)
(* the singsi backend: the parser registry, the parsing service, the       *)
(* format parsers and the educational content analyzer.                    *)
(*                                                                         *)
(* A Python str is a sequence of characters.  An ASCII character is        *)
(* written as itself ("a"), any other character by its code point          *)
(* ("U+5B78").  A Python dict with string keys is a function on strings    *)
(* (the empty dict is <<>>); where the code depends on the insertion       *)
(* order of a dict, the dict is a sequence of key/value entries.           *)
(***************************************************************************)
EXTENDS Integers, Sequences, FiniteSets, TLC

VARIABLES
    parsers,     \* ParserRegistry._parsers: insertion-ordered dict MIME type -> parser class
    registered,  \* history: the parser classes passed to register, in call order
    last,        \* the most recent call: its operation, arguments and outcome
    tempfiles,   \* the temporary files that exist (each named by a number)
    templates,   \* prompt_library._templates: insertion-ordered dict key -> template
    frames,      \* per caller: the call in flight, its position, arguments and outcome
    objects      \* per owner: the parser instance and result objects of its call

vars == <<parsers, registered, last, tempfiles, templates, frames, objects>>

(***************************************************************************)
(* Bounds of the model.                                                    *)
(***************************************************************************)
\* longest sequence of register calls explored
MaxRegs == 4
\* longest registration history a serving process starts from
MaxStartup == 1
\* most whitespace characters put around a MIME type argument or a text
MaxPad == 1
\* most temporary files left behind before the calls that leave one stop
MaxTempFiles == 1

(***************************************************************************)
(* Python str operations.                                                  *)
(***************************************************************************)
UpperCase == <<"A", "B", "C", "D", "E", "F", "G", "H", "I", "J", "K", "L", "M",
               "N", "O", "P", "Q", "R", "S", "T", "U", "V", "W", "X", "Y", "Z">>

LowerCase == <<"a", "b", "c", "d", "e", "f", "g", "h", "i", "j", "k", "l", "m",
               "n", "o", "p", "q", "r", "s", "t", "u", "v", "w", "x", "y", "z">>

Whitespace == {" ", "\t", "\n", "\r"}

\* the lower-case letter of each upper-case letter, and the reverse
ToLower == [c \in {UpperCase[i] : i \in 1..Len(UpperCase)} |->
               LowerCase[CHOOSE i \in 1..Len(UpperCase) : UpperCase[i] = c]]

ToUpper == [c \in {LowerCase[i] : i \in 1..Len(LowerCase)} |->
               UpperCase[CHOOSE i \in 1..Len(LowerCase) : LowerCase[i] = c]]

\* str.lower() on one character
LowerChar(c) == IF c \in DOMAIN ToLower THEN ToLower[c] ELSE c

\* str.upper() on one character
UpperChar(c) == IF c \in DOMAIN ToUpper THEN ToUpper[c] ELSE c

\* s.lower()
Lower(s) == [i \in 1..Len(s) |-> LowerChar(s[i])]

\* s.upper()
Upper(s) == [i \in 1..Len(s) |-> UpperChar(s[i])]

\* s.lstrip() and s.rstrip()
RECURSIVE LStripSpace(_)
LStripSpace(s) ==
    IF s = <<>> \/ s[1] \notin Whitespace THEN s ELSE LStripSpace(Tail(s))

RECURSIVE RStripSpace(_)
RStripSpace(s) ==
    IF s = <<>> \/ s[Len(s)] \notin Whitespace THEN s
    ELSE RStripSpace(SubSeq(s, 1, Len(s) - 1))

\* s.strip()
Strip(s) == RStripSpace(LStripSpace(s))

\* s.find(t, start): 0-based index of the first occurrence of t at or after start, -1 if none
Find(s, t, start) ==
    LET hits == {i \in start..(Len(s) - Len(t)) : SubSeq(s, i + 1, i + Len(t)) = t}
    IN  IF hits = {} THEN -1 ELSE CHOOSE i \in hits : \A j \in hits : i <= j

\* t in s
Contains(s, t) == Find(s, t, 0) # -1

\* s.split(sep)[0] for a one-character separator
SplitFirst(s, sep) ==
    LET at == Find(s, <<sep>>, 0)
    IN  IF at = -1 THEN s ELSE SubSeq(s, 1, at)

\* s.split(sep) for a one-character separator
RECURSIVE Split(_, _)
Split(s, sep) ==
    LET at == Find(s, <<sep>>, 0)
    IN  IF at = -1 THEN <<s>>
        ELSE <<SubSeq(s, 1, at)>> \o Split(SubSeq(s, at + 2, Len(s)), sep)

\* n copies of the character c
Repeat(c, n) == [i \in 1..n |-> c]

\* the elements of a sequence
Range(s) == {s[i] : i \in 1..Len(s)}

\* the absent value
None == <<"None">>

(***************************************************************************)
(* MIME types declared by the parsers, and one that no parser declares.    *)
(***************************************************************************)
\* "application/pdf"
MIME_PDF == <<"a", "p", "p", "l", "i", "c", "a", "t", "i", "o", "n", "/", "p", "d", "f">>
\* "application/msword"
MIME_DOC ==
    <<"a", "p", "p", "l", "i", "c", "a", "t", "i", "o", "n", "/", "m", "s", "w", "o", "r", "d">>
\* "application/vnd.openxmlformats-officedocument.wordprocessingml.document"
MIME_DOCX ==
    <<"a", "p", "p", "l", "i", "c", "a", "t", "i", "o", "n", "/", "v", "n", "d", ".", "o", "p",
      "e", "n", "x", "m", "l", "f", "o", "r", "m", "a", "t", "s", "-", "o", "f", "f", "i", "c",
      "e", "d", "o", "c", "u", "m", "e", "n", "t", ".", "w", "o", "r", "d", "p", "r", "o", "c",
      "e", "s", "s", "i", "n", "g", "m", "l", ".", "d", "o", "c", "u", "m", "e", "n", "t">>
\* "application/vnd.ms-powerpoint"
MIME_PPT ==
    <<"a", "p", "p", "l", "i", "c", "a", "t", "i", "o", "n", "/", "v", "n", "d", ".", "m", "s",
      "-", "p", "o", "w", "e", "r", "p", "o", "i", "n", "t">>
\* "application/vnd.openxmlformats-officedocument.presentationml.presentation"
MIME_PPTX ==
    <<"a", "p", "p", "l", "i", "c", "a", "t", "i", "o", "n", "/", "v", "n", "d", ".", "o", "p",
      "e", "n", "x", "m", "l", "f", "o", "r", "m", "a", "t", "s", "-", "o", "f", "f", "i", "c",
      "e", "d", "o", "c", "u", "m", "e", "n", "t", ".", "p", "r", "e", "s", "e", "n", "t", "a",
      "t", "i", "o", "n", "m", "l", ".", "p", "r", "e", "s", "e", "n", "t", "a", "t", "i", "o",
      "n">>
\* "application/vnd.ms-excel"
MIME_XLS ==
    <<"a", "p", "p", "l", "i", "c", "a", "t", "i", "o", "n", "/", "v", "n", "d", ".", "m", "s",
      "-", "e", "x", "c", "e", "l">>
\* "application/vnd.openxmlformats-officedocument.spreadsheetml.sheet"
MIME_XLSX ==
    <<"a", "p", "p", "l", "i", "c", "a", "t", "i", "o", "n", "/", "v", "n", "d", ".", "o", "p",
      "e", "n", "x", "m", "l", "f", "o", "r", "m", "a", "t", "s", "-", "o", "f", "f", "i", "c",
      "e", "d", "o", "c", "u", "m", "e", "n", "t", ".", "s", "p", "r", "e", "a", "d", "s", "h",
      "e", "e", "t", "m", "l", ".", "s", "h", "e", "e", "t">>
\* "image/jpeg"
MIME_JPEG == <<"i", "m", "a", "g", "e", "/", "j", "p", "e", "g">>
\* "image/png"
MIME_PNG == <<"i", "m", "a", "g", "e", "/", "p", "n", "g">>
\* "image/gif"
MIME_GIF == <<"i", "m", "a", "g", "e", "/", "g", "i", "f">>
\* "image/tiff"
MIME_TIFF == <<"i", "m", "a", "g", "e", "/", "t", "i", "f", "f">>
\* "image/bmp"
MIME_BMP == <<"i", "m", "a", "g", "e", "/", "b", "m", "p">>
\* "text/plain"
MIME_TXT == <<"t", "e", "x", "t", "/", "p", "l", "a", "i", "n">>
\* "text/csv"
MIME_CSV == <<"t", "e", "x", "t", "/", "c", "s", "v">>
\* "application/json"
MIME_JSON == <<"a", "p", "p", "l", "i", "c", "a", "t", "i", "o", "n", "/", "j", "s", "o", "n">>
\* "text/html"
MIME_HTML == <<"t", "e", "x", "t", "/", "h", "t", "m", "l">>
\* "application/zip"
MIME_ZIP == <<"a", "p", "p", "l", "i", "c", "a", "t", "i", "o", "n", "/", "z", "i", "p">>
\* "application/x-zip-compressed"
MIME_XZIP ==
    <<"a", "p", "p", "l", "i", "c", "a", "t", "i", "o", "n", "/", "x", "-", "z", "i", "p", "-",
      "c", "o", "m", "p", "r", "e", "s", "s", "e", "d">>
\* "application/unknown"
MIME_UNKNOWN ==
    <<"a", "p", "p", "l", "i", "c", "a", "t", "i", "o", "n", "/", "u", "n", "k", "n", "o", "w",
      "n">>

(***************************************************************************)
(* Message texts.                                                          *)
(***************************************************************************)
\* "Unsupported document type: "
MSG_UNSUPPORTED ==
    <<"U", "n", "s", "u", "p", "p", "o", "r", "t", "e", "d", " ", "d", "o", "c", "u", "m", "e",
      "n", "t", " ", "t", "y", "p", "e", ":", " ">>
\* "ParsingResult.__init__() got an unexpected keyword argument 'error'"
MSG_TYPE_ERROR ==
    <<"P", "a", "r", "s", "i", "n", "g", "R", "e", "s", "u", "l", "t", ".", "_", "_", "i", "n",
      "i", "t", "_", "_", "(", ")", " ", "g", "o", "t", " ", "a", "n", " ", "u", "n", "e", "x",
      "p", "e", "c", "t", "e", "d", " ", "k", "e", "y", "w", "o", "r", "d", " ", "a", "r", "g",
      "u", "m", "e", "n", "t", " ", "'", "e", "r", "r", "o", "r", "'">>
\* "Extracted text is minimal or empty; document may be scanned or image-based."
MSG_MINIMAL_TEXT ==
    <<"E", "x", "t", "r", "a", "c", "t", "e", "d", " ", "t", "e", "x", "t", " ", "i", "s", " ",
      "m", "i", "n", "i", "m", "a", "l", " ", "o", "r", " ", "e", "m", "p", "t", "y", ";", " ",
      "d", "o", "c", "u", "m", "e", "n", "t", " ", "m", "a", "y", " ", "b", "e", " ", "s", "c",
      "a", "n", "n", "e", "d", " ", "o", "r", " ", "i", "m", "a", "g", "e", "-", "b", "a", "s",
      "e", "d", ".">>
\* "Using fallback extraction due to error: "
MSG_USING_FALLBACK ==
    <<"U", "s", "i", "n", "g", " ", "f", "a", "l", "l", "b", "a", "c", "k", " ", "e", "x", "t",
      "r", "a", "c", "t", "i", "o", "n", " ", "d", "u", "e", " ", "t", "o", " ", "e", "r", "r",
      "o", "r", ":", " ">>
\* "PDF parsing failed, no text could be extracted: "
MSG_PDF_NO_TEXT ==
    <<"P", "D", "F", " ", "p", "a", "r", "s", "i", "n", "g", " ", "f", "a", "i", "l", "e", "d",
      ",", " ", "n", "o", " ", "t", "e", "x", "t", " ", "c", "o", "u", "l", "d", " ", "b", "e",
      " ", "e", "x", "t", "r", "a", "c", "t", "e", "d", ":", " ">>
\* "PDF parsing failed: "
MSG_PDF_FAILED ==
    <<"P", "D", "F", " ", "p", "a", "r", "s", "i", "n", "g", " ", "f", "a", "i", "l", "e", "d",
      ":", " ">>
\* "Word document parsing failed: "
MSG_WORD_FAILED ==
    <<"W", "o", "r", "d", " ", "d", "o", "c", "u", "m", "e", "n", "t", " ", "p", "a", "r", "s",
      "i", "n", "g", " ", "f", "a", "i", "l", "e", "d", ":", " ">>
\* "Error extracting text: "
MSG_ERROR_EXTRACTING ==
    <<"E", "r", "r", "o", "r", " ", "e", "x", "t", "r", "a", "c", "t", "i", "n", "g", " ", "t",
      "e", "x", "t", ":", " ">>
\* "Image parsing failed: "
MSG_IMAGE_FAILED ==
    <<"I", "m", "a", "g", "e", " ", "p", "a", "r", "s", "i", "n", "g", " ", "f", "a", "i", "l",
      "e", "d", ":", " ">>
\* "Markitdown library not properly initialized"
MSG_MD_NOT_INITIALIZED ==
    <<"M", "a", "r", "k", "i", "t", "d", "o", "w", "n", " ", "l", "i", "b", "r", "a", "r", "y",
      " ", "n", "o", "t", " ", "p", "r", "o", "p", "e", "r", "l", "y", " ", "i", "n", "i", "t",
      "i", "a", "l", "i", "z", "e", "d">>
\* "Markitdown parsing failed: "
MSG_MD_FAILED ==
    <<"M", "a", "r", "k", "i", "t", "d", "o", "w", "n", " ", "p", "a", "r", "s", "i", "n", "g",
      " ", "f", "a", "i", "l", "e", "d", ":", " ">>
\* "invalid literal for int() with base 10"
MSG_INT_ERROR ==
    <<"i", "n", "v", "a", "l", "i", "d", " ", "l", "i", "t", "e", "r", "a", "l", " ", "f", "o",
      "r", " ", "i", "n", "t", "(", ")", " ", "w", "i", "t", "h", " ", "b", "a", "s", "e", " ",
      "1", "0">>
\* "scanned or image-based"
STR_SCANNED ==
    <<"s", "c", "a", "n", "n", "e", "d", " ", "o", "r", " ", "i", "m", "a", "g", "e", "-", "b",
      "a", "s", "e", "d">>
\* "pdfminer_fallback"
STR_PDFMINER_FALLBACK ==
    <<"p", "d", "f", "m", "i", "n", "e", "r", "_", "f", "a", "l", "l", "b", "a", "c", "k">>
\* "Heading"
STR_HEADING == <<"H", "e", "a", "d", "i", "n", "g">>
\* "unknown"
STR_UNKNOWN == <<"u", "n", "k", "n", "o", "w", "n">>

\* "cannot open broken document"
EXC_FITZ ==
    <<"c", "a", "n", "n", "o", "t", " ", "o", "p", "e", "n", " ", "b", "r", "o", "k", "e", "n",
      " ", "d", "o", "c", "u", "m", "e", "n", "t">>
\* "page unreadable"
EXC_PAGE == <<"p", "a", "g", "e", " ", "u", "n", "r", "e", "a", "d", "a", "b", "l", "e">>
\* "No /Root object"
EXC_PDFMINER == <<"N", "o", " ", "/", "R", "o", "o", "t", " ", "o", "b", "j", "e", "c", "t">>
\* "File is not a zip file"
EXC_DOCX ==
    <<"F", "i", "l", "e", " ", "i", "s", " ", "n", "o", "t", " ", "a", " ", "z", "i", "p", " ",
      "f", "i", "l", "e">>
\* "cannot identify image file"
EXC_PIL ==
    <<"c", "a", "n", "n", "o", "t", " ", "i", "d", "e", "n", "t", "i", "f", "y", " ", "i", "m",
      "a", "g", "e", " ", "f", "i", "l", "e">>
\* "tesseract is not installed"
EXC_TESSERACT ==
    <<"t", "e", "s", "s", "e", "r", "a", "c", "t", " ", "i", "s", " ", "n", "o", "t", " ", "i",
      "n", "s", "t", "a", "l", "l", "e", "d">>
\* "conversion failed"
EXC_MARKITDOWN ==
    <<"c", "o", "n", "v", "e", "r", "s", "i", "o", "n", " ", "f", "a", "i", "l", "e", "d">>
\* "No space left on device"
EXC_DISK ==
    <<"N", "o", " ", "s", "p", "a", "c", "e", " ", "l", "e", "f", "t", " ", "o", "n", " ", "d",
      "e", "v", "i", "c", "e">>
(***************************************************************************)
(* Outcomes of a call: a returned value or a raised exception.             *)
(***************************************************************************)
Return(v) == [raised |-> FALSE, value |-> v]

Raise(type, msg) == [raised |-> TRUE, exc |-> [type |-> type, msg |-> msg]]

\* d.get(key, default) on a dict with string keys
DictGet(d, key, default) == IF key \in DOMAIN d THEN d[key] ELSE default

(***************************************************************************)
(* ParsingResult (parser_base.py).                                         *)
(***************************************************************************)
\* the keyword parameters __init__ declares
ParsingResultParams == {"text", "metadata", "pages", "structure", "optional_data"}

\* ParsingResult(**kw): a call with a keyword that __init__ does not declare raises TypeError
ParsingResult(kw) ==
    IF ~(DOMAIN kw \subseteq ParsingResultParams)
    THEN Raise("TypeError", MSG_TYPE_ERROR)
    ELSE LET optional_data == DictGet(kw, "optional_data", <<>>)
             metadata      == DictGet(kw, "metadata", <<>>)
             structure     == DictGet(kw, "structure", <<>>)
         IN  Return([text                |-> kw.text,
                     metadata            |-> metadata,
                     pages               |-> DictGet(kw, "pages", 1),
                     structure           |-> structure,
                     error               |-> DictGet(optional_data, "error", None),
                     tables              |-> DictGet(optional_data, "tables", <<>>),
                     images              |-> DictGet(optional_data, "images", <<>>),
                     audio_transcription |->
                         DictGet(optional_data, "audio_transcription", None)])

\* ParsingResult.success
success(result) == result.error = None

\* ParsingResult.to_dict()
to_dict(result) ==
    [text      |-> result.text,
     metadata  |-> result.metadata,
     pages     |-> result.pages,
     structure |-> result.structure,
     success   |-> success(result),
     error     |-> result.error]
    @@ (IF result.tables # <<>> THEN [tables |-> result.tables] ELSE <<>>)
    @@ (IF result.images # <<>> THEN [images |-> result.images] ELSE <<>>)
    @@ (IF result.audio_transcription \notin {None, <<>>}
        THEN [audio_transcription |-> result.audio_transcription] ELSE <<>>)

(***************************************************************************)
(* The parser classes and the MIME types each declares.                    *)
(***************************************************************************)
ParserClasses == {"DocxParser", "ImageParser", "MarkitdownParser", "PDFParser"}

\* no parser class (Python None)
NoParser == "None"

\* parser_class.supported_mimetypes()
supported_mimetypes(parser_class) ==
    CASE parser_class = "PDFParser" -> <<MIME_PDF>>
      [] parser_class = "DocxParser" -> <<MIME_DOCX, MIME_DOC>>
      [] parser_class = "ImageParser" ->
            <<MIME_JPEG, MIME_PNG, MIME_GIF, MIME_TIFF, MIME_BMP>>
      [] parser_class = "MarkitdownParser" ->
            <<MIME_PDF, MIME_DOC, MIME_DOCX, MIME_PPT, MIME_PPTX, MIME_XLS, MIME_XLSX,
              MIME_JPEG, MIME_PNG, MIME_GIF, MIME_TIFF,
              MIME_TXT, MIME_CSV, MIME_JSON, MIME_HTML,
              MIME_ZIP, MIME_XZIP>>

\* every MIME type some parser declares
DeclaredMimeTypes ==
    UNION {{supported_mimetypes(p)[i] : i \in 1..Len(supported_mimetypes(p))} :
           p \in ParserClasses}

\* a variant of the import order with the markitdown module imported first
ImportOrderMarkitdownFirst == <<"MarkitdownParser", "DocxParser", "ImageParser", "PDFParser">>

\* the import order of the parsers package: each module registers its parser when imported
ImportOrder == <<"DocxParser", "ImageParser", "MarkitdownParser", "PDFParser">>

(***************************************************************************)
(* ParserRegistry (parser_base.py).  _parsers is an insertion-ordered      *)
(* dict: a sequence of entries [k |-> MIME type, v |-> parser class].      *)
(***************************************************************************)
\* d.setdefault(k, v): an existing key keeps its value, so the first registration wins
DictSetDefault(d, k, v) ==
    IF \E i \in 1..Len(d) : d[i].k = k THEN d ELSE Append(d, [k |-> k, v |-> v])

\* d[k] = v on an insertion-ordered dict: an existing key keeps its position
DictStore(d, k, v) ==
    IF \E i \in 1..Len(d) : d[i].k = k
    THEN [i \in 1..Len(d) |-> IF d[i].k = k THEN [k |-> k, v |-> v] ELSE d[i]]
    ELSE Append(d, [k |-> k, v |-> v])

\* the loop of ParserRegistry.register over the first n declared MIME types
RECURSIVE RegisterLoop(_, _, _)
RegisterLoop(d, parser_class, n) ==
    IF n = 0 THEN d
    ELSE DictStore(RegisterLoop(d, parser_class, n - 1),
                   supported_mimetypes(parser_class)[n], parser_class)

\* a variant of register that rebuilds the dict: the entries of other parsers are lost
RegistryAfterRegisterRebuilt(d, parser_class) ==
    RegisterLoop(<<>>, parser_class, Len(supported_mimetypes(parser_class)))

\* the registry after ParserRegistry.register(parser_class)
RegistryAfterRegister(d, parser_class) ==
    RegisterLoop(d, parser_class, Len(supported_mimetypes(parser_class)))

\* _parsers.get(mimetype.lower()): a lookup that folds the letter case of its argument
get_parser_folding_case(d, mimetype) ==
    IF \E i \in 1..Len(d) : d[i].k = Lower(mimetype)
    THEN d[CHOOSE i \in 1..Len(d) : d[i].k = Lower(mimetype)].v
    ELSE NoParser

\* ParserRegistry.get_parser(mimetype): _parsers.get(mimetype)
get_parser(d, mimetype) ==
    IF \E i \in 1..Len(d) : d[i].k = mimetype
    THEN d[CHOOSE i \in 1..Len(d) : d[i].k = mimetype].v
    ELSE NoParser

\* ParserRegistry.get_supported_types(): list(_parsers.keys())
get_supported_types(d) == [i \in 1..Len(d) |-> d[i].k]

\* the registry after the register calls of a history, from an empty registry
RECURSIVE RegistryOf(_)
RegistryOf(history) ==
    IF history = <<>> THEN <<>>
    ELSE RegistryAfterRegister(RegistryOf(SubSeq(history, 1, Len(history) - 1)),
                               history[Len(history)])


(***************************************************************************)
(* PDFParser (parsers/pdf_parser.py).  The content of a PDF is what the    *)
(* two extraction libraries make of it:                                    *)
(*   fitz_open  whether fitz.open raises                                   *)
(*   metadata   doc.metadata                                               *)
(*   pages      per page, what page.get_text() returns or raises           *)
(*   toc        what doc.get_toc() returns or raises                       *)
(*   widgets    what iterating the pages' widgets yields or raises         *)
(*   pdfminer   what pdfminer's extract_text returns or raises             *)
(***************************************************************************)
EXPECTED_MIN_TEXT_LENGTH == 100

\* PDFParser._parse_with_pdfminer(content)
parse_with_pdfminer(content) == content.pdfminer

\* the loop over the pages that collects the text: a page that raises is skipped
RECURSIVE full_text(_)
full_text(pages) ==
    IF pages = <<>> THEN <<>>
    ELSE LET rest == full_text(SubSeq(pages, 1, Len(pages) - 1))
             page == pages[Len(pages)]
         IN  IF page.raised THEN rest ELSE rest \o page.value \o <<"\n", "\n">>

\* PDFParser._parse_with_pymupdf(content): returns (text, metadata, structure)
parse_with_pymupdf(content) ==
    IF content.fitz_open.raised THEN content.fitz_open
    ELSE LET doc_metadata == content.metadata
             metadata ==
                 [title             |-> DictGet(doc_metadata, "title", <<>>),
                  author            |-> DictGet(doc_metadata, "author", <<>>),
                  subject           |-> DictGet(doc_metadata, "subject", <<>>),
                  keywords          |-> DictGet(doc_metadata, "keywords", <<>>),
                  creator           |-> DictGet(doc_metadata, "creator", <<>>),
                  producer          |-> DictGet(doc_metadata, "producer", <<>>),
                  creation_date     |-> DictGet(doc_metadata, "creationDate", <<>>),
                  modification_date |-> DictGet(doc_metadata, "modDate", <<>>)]
             toc ==
                 IF content.toc.raised THEN <<>>
                 ELSE IF content.toc.is_list THEN content.toc.value ELSE <<>>
             form_fields ==
                 IF content.widgets.raised THEN <<>> ELSE content.widgets.value
             structure ==
                 [page_count  |-> Len(content.pages),
                  form_fields |-> form_fields,
                  toc         |-> toc]
         IN  Return([text      |-> full_text(content.pages),
                     metadata  |-> metadata,
                     structure |-> structure])

\* the body of the try block of PDFParser.parse
pdf_parse_try(content) ==
    LET primary == parse_with_pymupdf(content)
    IN  IF primary.raised THEN primary
        ELSE LET text0     == primary.value.text
                 metadata  == primary.value.metadata
                 structure == primary.value.structure
                 consult   == text0 = <<>> \/ Len(Strip(text0)) < EXPECTED_MIN_TEXT_LENGTH
                 fallback  == parse_with_pdfminer(content)
             IN  IF consult /\ fallback.raised THEN fallback
                 ELSE LET text ==
                              IF consult /\ Len(Strip(fallback.value)) > Len(Strip(text0))
                              THEN fallback.value
                              ELSE text0
                      IN  IF text # <<>> /\ Len(Strip(text)) >= EXPECTED_MIN_TEXT_LENGTH
                          THEN ParsingResult([text      |-> text,
                                              metadata  |-> metadata,
                                              pages     |-> structure.page_count,
                                              structure |-> structure])
                          ELSE ParsingResult([text      |-> text,
                                              metadata  |-> metadata,
                                              pages     |-> structure.page_count,
                                              structure |-> structure,
                                              error     |-> MSG_MINIMAL_TEXT])

\* the body of the inner try block of PDFParser.parse, entered with the exception e
pdf_parse_fallback_try(content, e) ==
    LET simple == parse_with_pdfminer(content)
    IN  IF simple.raised THEN simple
        ELSE IF simple.value # <<>> /\ Len(Strip(simple.value)) > 0
             THEN ParsingResult(
                      [text     |-> simple.value,
                       metadata |-> [extraction_method |-> STR_PDFMINER_FALLBACK],
                       pages    |-> 1,
                       error    |-> MSG_USING_FALLBACK \o e.msg])
             ELSE ParsingResult([text  |-> <<>>,
                                 error |-> MSG_PDF_NO_TEXT \o e.msg])

\* PDFParser().parse(content, filename)
PDFParser_parse(content) ==
    LET first == pdf_parse_try(content)
    IN  IF ~first.raised THEN first
        ELSE LET second == pdf_parse_fallback_try(content, first.exc)
             IN  IF ~second.raised THEN second
                 ELSE ParsingResult([text  |-> <<>>,
                                     error |-> MSG_PDF_FAILED \o second.exc.msg])

\* lengths of the text a page or a document yields
ShortLen == 50

TextLens ==
    {0, ShortLen, EXPECTED_MIN_TEXT_LENGTH - 1, EXPECTED_MIN_TEXT_LENGTH,
     EXPECTED_MIN_TEXT_LENGTH + ShortLen}

\* most pages of a PDF
MaxPages == 2

\* a text of n characters c inside pad whitespace characters on either side
PaddedText(c, n, pad) == Repeat(" ", pad) \o Repeat(c, n) \o Repeat("\n", pad)

PageOutcomes ==
    {Raise("RuntimeError", EXC_PAGE)} \cup {Return(Repeat("p", n)) : n \in TextLens}

PdfminerOutcomes ==
    {Raise("PDFSyntaxError", EXC_PDFMINER)}
    \cup {Return(PaddedText("m", n, pad)) : n \in TextLens, pad \in 0..MaxPad}

\* a widget of a form
SampleWidget == [field_name |-> <<"q", "1">>, field_type |-> 7, field_value |-> <<>>]

\* an entry of a table of contents: level, title, page
SampleTocEntry == [level |-> 1, title |-> <<"I">>, page |-> 1]

\* what the structural features of a PDF can do besides the text
PdfFeatures ==
    {[metadata |-> [title |-> <<"T">>, author |-> <<"A">>, modDate |-> <<"D">>],
      toc      |-> [raised |-> FALSE, is_list |-> TRUE, value |-> <<SampleTocEntry>>],
      widgets  |-> Return(<<SampleWidget>>)],
     [metadata |-> <<>>,
      toc      |-> [raised |-> FALSE, is_list |-> FALSE, value |-> <<>>],
      widgets  |-> Return(<<>>)],
     [metadata |-> <<>>,
      toc      |-> [raised |-> TRUE, is_list |-> FALSE, value |-> <<>>],
      widgets  |-> Raise("TypeError", EXC_PAGE)]}

\* sequences over S of length at most n
SeqUpTo(S, n) == UNION {[1..k -> S] : k \in 0..n}

\* the PDFs a parse is tried on
PdfContents ==
    {[fitz_open |-> Return(<<>>), metadata |-> f.metadata, pages |-> pages,
      toc |-> f.toc, widgets |-> f.widgets, pdfminer |-> miner] :
        f \in PdfFeatures, pages \in SeqUpTo(PageOutcomes, MaxPages),
        miner \in PdfminerOutcomes}
    \cup
    {[fitz_open |-> Raise("FileDataError", EXC_FITZ), metadata |-> <<>>, pages |-> <<>>,
      toc |-> [raised |-> FALSE, is_list |-> TRUE, value |-> <<>>],
      widgets |-> Return(<<>>), pdfminer |-> miner] :
        miner \in PdfminerOutcomes}

(***************************************************************************)
(* DocxParser (parsers/docx_parser.py).  The content of a Word file is     *)
(* what python-docx makes of it:                                           *)
(*   open             whether docx.Document raises                         *)
(*   paragraphs       doc.paragraphs, a list of [text, style], or raises   *)
(*   core_properties  doc.core_properties, or raises                       *)
(*   tables_count     len(doc.tables)                                      *)
(***************************************************************************)
\* x or '' on an optional str
OrEmpty(x) == IF x = None THEN <<>> ELSE x

Digits == <<"0", "1", "2", "3", "4", "5", "6", "7", "8", "9">>

IsDigit(c) == \E i \in 1..Len(Digits) : Digits[i] = c

DigitValue(c) == (CHOOSE i \in 1..Len(Digits) : Digits[i] = c) - 1

\* the value of a non-empty sequence of decimal digits
RECURSIVE DecimalValue(_)
DecimalValue(s) ==
    IF s = <<>> THEN 0
    ELSE 10 * DecimalValue(SubSeq(s, 1, Len(s) - 1)) + DigitValue(s[Len(s)])

\* int(s): surrounding whitespace is ignored, anything but decimal digits raises ValueError
int(s) ==
    LET t == Strip(s)
    IN  IF t # <<>> /\ \A i \in 1..Len(t) : IsDigit(t[i])
        THEN Return(DecimalValue(t))
        ELSE Raise("ValueError", MSG_INT_ERROR)

\* s.startswith(t)
StartsWith(s, t) == Len(s) >= Len(t) /\ SubSeq(s, 1, Len(t)) = t

\* s.replace(t, '') for a non-empty t
RECURSIVE Remove(_, _)
Remove(s, t) ==
    LET at == Find(s, t, 0)
    IN  IF at = -1 THEN s
        ELSE SubSeq(s, 1, at) \o Remove(SubSeq(s, at + Len(t) + 1, Len(s)), t)

\* sep.join(parts) for a one-character separator
RECURSIVE Join(_, _)
Join(parts, sep) ==
    IF parts = <<>> THEN <<>>
    ELSE IF Len(parts) = 1 THEN parts[1]
    ELSE Join(SubSeq(parts, 1, Len(parts) - 1), sep) \o <<sep>> \o parts[Len(parts)]

\* DocxParser._extract_text(doc): a failure becomes the returned text
docx_extract_text(content) ==
    IF content.paragraphs.raised
    THEN MSG_ERROR_EXTRACTING \o content.paragraphs.exc.msg
    ELSE Join([i \in 1..Len(content.paragraphs.value) |->
                   content.paragraphs.value[i].text], "\n")

\* DocxParser._extract_metadata(doc)
docx_extract_metadata(content) ==
    IF content.core_properties.raised THEN content.core_properties
    ELSE LET core_props == content.core_properties.value
         IN  Return([title            |-> OrEmpty(core_props.title),
                     author           |-> OrEmpty(core_props.author),
                     subject          |-> OrEmpty(core_props.subject),
                     keywords         |-> OrEmpty(core_props.keywords),
                     created          |-> OrEmpty(core_props.created),
                     modified         |-> OrEmpty(core_props.modified),
                     last_modified_by |-> OrEmpty(core_props.last_modified_by),
                     category         |-> OrEmpty(core_props.category),
                     language         |-> OrEmpty(core_props.language)])

\* characters an A4 page holds
CHARS_PER_PAGE == 3000

\* round(n / d) for naturals n and d > 0: Python rounds a half to the even neighbour
RoundDiv(n, d) ==
    LET q == n \div d
        r == n % d
    IN  IF 2 * r < d THEN q
        ELSE IF 2 * r > d THEN q + 1
        ELSE IF q % 2 = 0 THEN q ELSE q + 1

Max(a, b) == IF a >= b THEN a ELSE b

\* the page estimate of DocxParser._extract_structure:
\*   estimated_pages = max(1, round(total_chars / 3000))
\*   estimated_pages += tables_count * 0.5
\*   estimated_pages = int(estimated_pages + 0.5)
estimated_pages(total_chars, tables_count) ==
    LET whole    == Max(1, RoundDiv(total_chars, CHARS_PER_PAGE))
        \* whole + tables_count / 2 + 1 / 2, as halves
        halves   == 2 * whole + tables_count + 1
    IN  halves \div 2

\* the sum of the lengths of the paragraphs' texts
RECURSIVE total_chars(_)
total_chars(paragraphs) ==
    IF paragraphs = <<>> THEN 0
    ELSE total_chars(SubSeq(paragraphs, 1, Len(paragraphs) - 1))
         + Len(paragraphs[Len(paragraphs)].text)

\* the heading entry of one paragraph with a heading style
docx_heading(paragraph) ==
    LET level ==
            IF paragraph.style # STR_HEADING
            THEN int(Remove(paragraph.style, STR_HEADING))
            ELSE Return(1)
    IN  IF level.raised THEN level
        ELSE Return([level |-> level.value, text |-> paragraph.text])

\* the loop of _extract_structure that collects the headings
RECURSIVE docx_headings(_)
docx_headings(paragraphs) ==
    IF paragraphs = <<>> THEN Return(<<>>)
    ELSE LET rest      == docx_headings(SubSeq(paragraphs, 1, Len(paragraphs) - 1))
             paragraph == paragraphs[Len(paragraphs)]
         IN  IF rest.raised THEN rest
             ELSE IF ~StartsWith(paragraph.style, STR_HEADING) THEN rest
             ELSE LET heading == docx_heading(paragraph)
                  IN  IF heading.raised THEN heading
                      ELSE Return(Append(rest.value, heading.value))

\* DocxParser._extract_structure(doc)
docx_extract_structure(content) ==
    IF content.paragraphs.raised THEN content.paragraphs
    ELSE LET paragraphs == content.paragraphs.value
             headings   == docx_headings(paragraphs)
         IN  IF headings.raised THEN headings
             ELSE Return([headings         |-> headings.value,
                          tables_count     |-> content.tables_count,
                          paragraphs_count |-> Len(paragraphs),
                          character_count  |-> total_chars(paragraphs),
                          estimated_pages  |->
                              estimated_pages(total_chars(paragraphs),
                                              content.tables_count)])

\* the body of the try block of DocxParser.parse
docx_parse_try(content) ==
    IF content.open.raised THEN content.open
    ELSE LET text      == docx_extract_text(content)
             metadata  == docx_extract_metadata(content)
             structure == docx_extract_structure(content)
         IN  IF metadata.raised THEN metadata
             ELSE IF structure.raised THEN structure
             ELSE ParsingResult([text      |-> text,
                                 metadata  |-> metadata.value,
                                 pages     |-> structure.value.estimated_pages,
                                 structure |-> structure.value])

\* DocxParser().parse(content, filename)
DocxParser_parse(content) ==
    LET first == docx_parse_try(content)
    IN  IF ~first.raised THEN first
        ELSE ParsingResult([text  |-> <<>>,
                            error |-> MSG_WORD_FAILED \o first.exc.msg])

\* most paragraphs and most tables of a Word file
MaxParagraphs == 2

MaxTables == 2

SampleParagraphs ==
    {[text |-> <<"I", "n", "t", "r", "o">>, style |-> STR_HEADING \o <<" ", "2">>],
     [text |-> <<"T", "o", "p">>, style |-> STR_HEADING],
     [text |-> <<"b", "o", "d", "y", " ", "t", "e", "x", "t">>,
      style |-> <<"N", "o", "r", "m", "a", "l">>],
     [text |-> <<>>, style |-> STR_HEADING \o <<" ", "C", "h", "a", "r">>]}

SampleCoreProperties ==
    {Return([title |-> <<"T">>, author |-> <<"A">>, subject |-> None, keywords |-> <<>>,
             created |-> <<"2", "0", "2", "4">>, modified |-> None,
             last_modified_by |-> None, category |-> None, language |-> <<"e", "n">>]),
     Raise("KeyError", EXC_DOCX)}

\* the Word files a parse is tried on
DocxContents ==
    {[open |-> Return(<<>>), paragraphs |-> Return(paragraphs),
      core_properties |-> core_props, tables_count |-> tables_count] :
        paragraphs \in SeqUpTo(SampleParagraphs, MaxParagraphs),
        core_props \in SampleCoreProperties, tables_count \in 0..MaxTables}
    \cup
    {[open |-> Return(<<>>), paragraphs |-> Raise("AttributeError", EXC_DOCX),
      core_properties |-> core_props, tables_count |-> 0] :
        core_props \in SampleCoreProperties}
    \cup
    {[open |-> Raise("BadZipFile", EXC_DOCX), paragraphs |-> Return(<<>>),
      core_properties |-> Raise("KeyError", EXC_DOCX), tables_count |-> 0]}

MaxHalfPages == 12

\* the character counts the page estimate is computed for: the multiples of half a
\* page up to MaxHalfPages, and the counts next to them
PageCharCounts ==
    {k * (CHARS_PER_PAGE \div 2) + d : k \in 0..MaxHalfPages, d \in {-1, 0, 1}} \cap Nat

(***************************************************************************)
(* ImageParser (parsers/image_parser.py).  The content of an image is      *)
(* what PIL and Tesseract make of it:                                      *)
(*   open     Image.open: the image's attributes, or raises                *)
(*   convert  whether image.convert('L') raises                            *)
(*   ocr      pytesseract.image_to_string: the text, or raises             *)
(***************************************************************************)
\* ImageParser._preprocess_image(image): convert to grayscale unless it is already
image_preprocess(content) ==
    IF content.open.value.mode # "L" /\ content.convert.raised
    THEN content.convert
    ELSE Return([content.open.value EXCEPT !.mode = "L"])

\* ImageParser._extract_tables(image)
image_extract_tables(image) == <<>>

\* ImageParser._extract_metadata(image)
image_extract_metadata(image) ==
    [width  |-> image.width,
     height |-> image.height,
     format |-> image.format,
     mode   |-> image.mode,
     dpi    |-> DictGet(image.info, "dpi", None)]

\* ImageParser._analyze_educational_content(text)
image_analyze_educational_content(text) == <<>>

\* ImageParser._get_image_info(image)
image_get_image_info(image) ==
    [width |-> image.width, height |-> image.height, format |-> image.format]

\* the body of the try block of ImageParser.parse
image_parse_try(content) ==
    IF content.open.raised THEN content.open
    ELSE LET image     == content.open.value
             processed == image_preprocess(content)
         IN  IF processed.raised THEN processed
             ELSE IF content.ocr.raised THEN content.ocr
             ELSE LET text          == content.ocr.value
                      tables        == image_extract_tables(image)
                      metadata      == image_extract_metadata(image)
                      structure     == image_analyze_educational_content(text)
                      optional_data == [tables |-> tables,
                                        images |-> <<image_get_image_info(image)>>]
                  IN  ParsingResult([text          |-> text,
                                     metadata      |-> metadata,
                                     pages         |-> 1,
                                     structure     |-> structure,
                                     optional_data |-> optional_data])

\* ImageParser().parse(content, filename)
ImageParser_parse(content) ==
    LET first == image_parse_try(content)
    IN  IF ~first.raised THEN first
        ELSE ParsingResult([text  |-> <<>>,
                            error |-> MSG_IMAGE_FAILED \o first.exc.msg])

\* text lengths around the image parser's documented minimum
OcrLens == {0, 19, 20, 21}

SampleImages ==
    {[width |-> 640, height |-> 480, format |-> "PNG", mode |-> "RGB",
      info |-> [dpi |-> <<72, 72>>]],
     [width |-> 100, height |-> 100, format |-> "TIFF", mode |-> "L", info |-> <<>>]}

\* the images a parse is tried on
ImageContents ==
    {[open |-> Return(image), convert |-> convert, ocr |-> ocr] :
        image \in SampleImages,
        convert \in {Return(<<>>), Raise("OSError", EXC_PIL)},
        ocr \in {Raise("TesseractNotFoundError", EXC_TESSERACT)}
                \cup {Return(PaddedText("o", n, pad)) : n \in OcrLens, pad \in 0..MaxPad}}
    \cup
    {[open |-> Raise("UnidentifiedImageError", EXC_PIL), convert |-> Return(<<>>),
      ocr |-> Return(<<>>)]}

(***************************************************************************)
(* MarkitdownParser (parsers/markitdown_parser.py).  The content is what   *)
(* the MarkItDown library and the file system make of it:                  *)
(*   init     whether MarkItDown() raises when the parser is constructed   *)
(*   create   whether tempfile.NamedTemporaryFile raises                   *)
(*   write    whether temp.write(content) raises                           *)
(*   convert  md.convert(temp_path): the conversion result, or raises      *)
(*   unlink   whether os.unlink(temp_path) raises                          *)
(* A conversion result is a dict of the attributes the result object has.  *)
(***************************************************************************)
VALID_HEADING_LEVELS == 6

\* s.lstrip(chars)
LStrip(s, chars) ==
    LET solid == {i \in 1..Len(s) : s[i] \notin chars}
    IN  IF solid = {} THEN <<>>
        ELSE SubSeq(s, CHOOSE i \in solid : \A j \in solid : i <= j, Len(s))

\* the heading entries of the first n lines
RECURSIVE md_headings_of(_, _)
md_headings_of(lines, n) ==
    IF n = 0 THEN <<>>
    ELSE LET rest  == md_headings_of(lines, n - 1)
             line  == lines[n]
             level == Len(line) - Len(LStrip(line, {"#"}))
         IN  IF StartsWith(line, <<"#">>) /\ level <= VALID_HEADING_LEVELS
             THEN Append(rest, [level |-> level, text |-> LStrip(line, {"#", " "})])
             ELSE rest

\* MarkitdownParser._extract_headings(markdown_text)
md_extract_headings(markdown_text) ==
    md_headings_of(Split(markdown_text, "\n"), Len(Split(markdown_text, "\n")))

\* "if value": page_count is a number, every other metadata value a str or None
md_truthy(key, value) ==
    IF key = "page_count" THEN value # 0 ELSE value \notin {<<>>, None}

\* the entries of result.metadata with a non-empty value
md_truthy_metadata(result) ==
    IF "metadata" \in DOMAIN result
    THEN LET m    == result.metadata
             keep == {k \in DOMAIN m : md_truthy(k, m[k])}
         IN  IF keep = {} THEN <<>> ELSE [k \in keep |-> m[k]]
    ELSE <<>>

\* MarkitdownParser._extract_metadata(result)
md_extract_metadata(result) ==
    (IF "tables" \in DOMAIN result
     THEN [has_tables |-> Len(result.tables) > 0, table_count |-> Len(result.tables)]
     ELSE <<>>)
    @@ (IF "word_count" \in DOMAIN result
        THEN [word_count |-> result.word_count] ELSE <<>>)
    @@ (IF "source_format" \in DOMAIN result
        THEN [source_format |-> result.source_format] ELSE <<>>)
    @@ md_truthy_metadata(result)

\* MarkitdownParser._extract_structure(result, text_content)
md_extract_structure(result, text_content) ==
    [headings |-> md_extract_headings(text_content)]
    @@ (IF "tables" \in DOMAIN result /\ result.tables # <<>>
        THEN [tables |-> result.tables] ELSE <<>>)
    @@ (IF "images" \in DOMAIN result /\ result.images # <<>>
        THEN [has_images |-> TRUE, image_count |-> Len(result.images)] ELSE <<>>)

\* the temporary file the call has created, if it got as far as creating one
md_created(content) ==
    content.init.raised = FALSE /\ content.create.raised = FALSE

\* whether temp_path was assigned: the assignment follows temp.write(content)
md_temp_path_set(content) == md_created(content) /\ ~content.write.raised

\* the body of the try block of MarkitdownParser.parse
md_parse_try(content) ==
    IF content.create.raised THEN content.create
    ELSE IF content.write.raised THEN content.write
    ELSE IF content.convert.raised THEN content.convert
    ELSE LET result       == content.convert.value
             text_content == OrEmpty(result.text_content)
             metadata     == md_extract_metadata(result)
             structure    == md_extract_structure(result, text_content)
             pages        == DictGet(metadata, "page_count", 1)
         IN  ParsingResult([text      |-> text_content,
                            metadata  |-> metadata,
                            pages     |-> pages,
                            structure |-> structure])

\* MarkitdownParser().parse(content, filename): the outcome
MarkitdownParser_parse(content) ==
    IF content.init.raised
    THEN ParsingResult([text |-> <<>>, error |-> MSG_MD_NOT_INITIALIZED])
    ELSE LET first == md_parse_try(content)
         IN  IF ~first.raised THEN first
             ELSE ParsingResult([text  |-> <<>>,
                                 error |-> MSG_MD_FAILED \o first.exc.msg])

\* MarkitdownParser().parse(content, filename): whether the temporary file it created
\* still exists when it returns.  The finally block unlinks temp_path if it was set.
md_leaves_file(content) ==
    md_created(content) /\ (~md_temp_path_set(content) \/ content.unlink.raised)

SampleConversions ==
    {[text_content |-> <<"#", " ", "T", "\n", "b", "o", "d", "y", "\n", "#", "#", "#",
                         "#", "#", "#", "#", " ", "x">>,
      metadata |-> [title |-> <<"T">>, author |-> <<>>, page_count |-> 3],
      source_format |-> "docx", word_count |-> 2,
      tables |-> <<[rows |-> 2]>>, images |-> <<[name |-> "i"]>>],
     [text_content |-> None, tables |-> <<>>],
     [text_content |-> <<"p", "l", "a", "i", "n">>]}

\* the files a parse is tried on
MarkitdownContents ==
    {[init |-> Return(<<>>), create |-> Return(<<>>), write |-> Return(<<>>),
      convert |-> Return(result), unlink |-> unlink] :
        result \in SampleConversions,
        unlink \in {Return(<<>>), Raise("PermissionError", EXC_DISK)}}
    \cup
    {[init |-> init, create |-> create, write |-> write, convert |-> convert,
      unlink |-> unlink] :
        init \in {Return(<<>>), Raise("ImportError", EXC_MARKITDOWN)},
        create \in {Return(<<>>), Raise("OSError", EXC_DISK)},
        write \in {Return(<<>>), Raise("OSError", EXC_DISK)},
        convert \in {Raise("FileConversionException", EXC_MARKITDOWN)},
        unlink \in {Return(<<>>), Raise("PermissionError", EXC_DISK)}}

(***************************************************************************)
(* DocumentParsingService (parsing_service.py).                            *)
(***************************************************************************)
\* mimetype.split(';')[0].strip().lower()
normalize(mimetype) == Lower(Strip(SplitFirst(mimetype, ";")))

\* parser_class().parse(content, filename)
parse(parser_class, content) ==
    CASE parser_class = "PDFParser" -> PDFParser_parse(content)
      [] parser_class = "DocxParser" -> DocxParser_parse(content)
      [] parser_class = "ImageParser" -> ImageParser_parse(content)
      [] parser_class = "MarkitdownParser" -> MarkitdownParser_parse(content)

\* whether parser_class().parse(content, filename) leaves a temporary file behind
leaves_file(parser_class, content) ==
    parser_class = "MarkitdownParser" /\ md_leaves_file(content)

\* DocumentParsingService.parse_document(content, mimetype, filename) on the registry d
parse_document(d, content, mimetype) ==
    LET normalized   == normalize(mimetype)
        parser_class == get_parser(d, normalized)
        result ==
            IF parser_class = NoParser
            THEN ParsingResult([text  |-> <<>>,
                                error |-> MSG_UNSUPPORTED \o normalized])
            ELSE parse(parser_class, content)
    IN  IF result.raised THEN result ELSE Return(to_dict(result.value))

\* DocumentParsingService.get_supported_mimetypes()
get_supported_mimetypes(d) == get_supported_types(d)

(***************************************************************************)
(* The arguments parse_document is tried on.                               *)
(***************************************************************************)
\* "; charset=UTF-8"
MIME_PARAM_CHARSET ==
    <<";", " ", "c", "h", "a", "r", "s", "e", "t", "=", "U", "T", "F", "-", "8">>
\* ";q=1;x=2"
MIME_PARAM_TWO == <<";", "q", "=", "1", ";", "x", "=", "2">>

MimeParams == {<<>>, MIME_PARAM_CHARSET, MIME_PARAM_TWO}

\* s with its first character in upper case
Capitalize(s) == IF s = <<>> THEN s ELSE <<UpperChar(s[1])>> \o SubSeq(s, 2, Len(s))

LetterCases == {"lower", "upper", "capitalized"}

Cased(s, case) ==
    CASE case = "lower" -> s
      [] case = "upper" -> Upper(s)
      [] case = "capitalized" -> Capitalize(s)

\* a spelling of the MIME type base: in another letter case, inside whitespace, with
\* parameters after it
Spelling(base, case, lead, trail, param) ==
    Repeat(" ", lead) \o Cased(base, case) \o Repeat("\t", trail) \o param

\* the MIME types the service is asked for: one or two that each parser declares, one
\* that only the image parser declares, one that no parser declares
ServiceMimeTypes ==
    {MIME_PDF, MIME_DOCX, MIME_DOC, MIME_JPEG, MIME_BMP, MIME_TXT, MIME_UNKNOWN}

MimeArguments ==
    {Spelling(base, case, lead, trail, param) :
        base \in ServiceMimeTypes, case \in LetterCases,
        lead \in 0..MaxPad, trail \in 0..MaxPad, param \in MimeParams}

\* a PDF of one page with n characters for which pdfminer yields miner
OnePagePdf(n, miner) ==
    [fitz_open |-> Return(<<>>), metadata |-> <<>>, pages |-> <<Return(Repeat("p", n))>>,
     toc |-> [raised |-> FALSE, is_list |-> TRUE, value |-> <<>>],
     widgets |-> Return(<<>>), pdfminer |-> miner]

\* the content uploaded for an unsupported type: no library ever sees it
NoContent == [unread |-> TRUE]

\* the contents the service hands to a parser of the class
ServiceContents(parser_class) ==
    CASE parser_class = "PDFParser" ->
            {OnePagePdf(EXPECTED_MIN_TEXT_LENGTH, Return(<<>>)),
             OnePagePdf(ShortLen, Return(Repeat("m", EXPECTED_MIN_TEXT_LENGTH))),
             OnePagePdf(ShortLen, Return(<<>>)),
             [fitz_open |-> Raise("FileDataError", EXC_FITZ), metadata |-> <<>>,
              pages |-> <<>>, toc |-> [raised |-> FALSE, is_list |-> TRUE, value |-> <<>>],
              widgets |-> Return(<<>>),
              pdfminer |-> Raise("PDFSyntaxError", EXC_PDFMINER)]}
      [] parser_class = "DocxParser" ->
            {c \in DocxContents : c.tables_count = 0 /\ ~c.core_properties.raised
                                  /\ (c.paragraphs.raised \/ c.paragraphs.value = <<>>)}
      [] parser_class = "ImageParser" ->
            {c \in ImageContents :
                /\ ~c.convert.raised
                /\ ~c.open.raised => c.open.value.mode = "L"
                /\ ~c.ocr.raised => Len(c.ocr.value) \in {0, 21}}
      [] parser_class = "MarkitdownParser" ->
            {c \in MarkitdownContents :
                \/ /\ \A k \in DOMAIN c : ~c[k].raised
                   /\ DOMAIN c.convert.value = {"text_content"}
                \/ /\ c.convert.raised /\ ~c.create.raised /\ ~c.unlink.raised
                   /\ c.init.raised # c.write.raised}
      [] parser_class = NoParser -> {NoContent}

(***************************************************************************)
(* EducationalContentAnalyzer (education_content_analyzer.py).             *)
(***************************************************************************)
\* EducationalDocumentType
UNKNOWN == "unknown"

SYLLABUS == "syllabus"

LECTURE_NOTES == "lecture_notes"

WORKSHEET == "worksheet"

EXAM == "exam"

TEXTBOOK == "textbook"

LESSON_PLAN == "lesson_plan"

EducationalDocumentType ==
    {UNKNOWN, SYLLABUS, LECTURE_NOTES, WORKSHEET, EXAM, TEXTBOOK, LESSON_PLAN}

\* ['syllabus', 'course outline', ...]
SYLLABUS_TERMS ==
    <<<<"s", "y", "l", "l", "a", "b", "u", "s">>,
      <<"c", "o", "u", "r", "s", "e", " ", "o", "u", "t", "l", "i", "n", "e">>,
      <<"U+8AB2", "U+7A0B", "U+5927", "U+7DB1">>,
      <<"U+6559", "U+5B78", "U+5927", "U+7DB1">>>>

\* ['exam', 'quiz', 'test', ...]
EXAM_TERMS ==
    <<<<"e", "x", "a", "m">>,
      <<"q", "u", "i", "z">>,
      <<"t", "e", "s", "t">>,
      <<"U+8003", "U+8A66">>,
      <<"U+6E2C", "U+9A57">>>>

\* ['worksheet', 'exercise', ...]
WORKSHEET_TERMS ==
    <<<<"w", "o", "r", "k", "s", "h", "e", "e", "t">>,
      <<"e", "x", "e", "r", "c", "i", "s", "e">>,
      <<"U+7DF4", "U+7FD2">>,
      <<"U+4F5C", "U+696D">>>>

\* ['lesson plan', 'teaching plan', ...]
LESSON_PLAN_TERMS ==
    <<<<"l", "e", "s", "s", "o", "n", " ", "p", "l", "a", "n">>,
      <<"t", "e", "a", "c", "h", "i", "n", "g", " ", "p", "l", "a", "n">>,
      <<"U+6559", "U+6848">>,
      <<"U+8AB2", "U+7A0B", "U+8A08", "U+5283">>>>

\* ['lecture', 'lecture notes', ...]
LECTURE_TERMS ==
    <<<<"l", "e", "c", "t", "u", "r", "e">>,
      <<"l", "e", "c", "t", "u", "r", "e", " ", "n", "o", "t", "e", "s">>,
      <<"U+8B1B", "U+7FA9">>>>

\* ['grade', 'score', 'time limit', ...]
SCORING_TERMS ==
    <<<<"g", "r", "a", "d", "e">>,
      <<"s", "c", "o", "r", "e">>,
      <<"t", "i", "m", "e", " ", "l", "i", "m", "i", "t">>,
      <<"U+8A55", "U+5206">>,
      <<"U+6210", "U+7E3E">>,
      <<"U+6642", "U+9593", "U+9650", "U+5236">>>>

\* patterns['learning_objectives']
LEARNING_OBJECTIVES ==
    <<<<"l", "e", "a", "r", "n", "i", "n", "g", " ", "o", "b", "j", "e", "c", "t", "i",
        "v", "e", "s">>,
      <<"t", "e", "a", "c", "h", "i", "n", "g", " ", "o", "b", "j", "e", "c", "t", "i",
        "v", "e", "s">>,
      <<"c", "o", "u", "r", "s", "e", " ", "o", "b", "j", "e", "c", "t", "i", "v", "e", "s">>,
      <<"s", "t", "u", "d", "e", "n", "t", "s", " ", "w", "i", "l", "l", " ", "b", "e",
        " ", "a", "b", "l", "e", " ", "t", "o">>,
      <<"l", "e", "a", "r", "n", "i", "n", "g", " ", "o", "u", "t", "c", "o", "m", "e", "s">>,
      <<"t", "h", "i", "s", " ", "c", "o", "u", "r", "s", "e", " ", "a", "i", "m", "s",
        " ", "t", "o">>,
      <<"l", "e", "a", "r", "n", "i", "n", "g", " ", "f", "o", "c", "u", "s">>,
      <<"c", "o", "r", "e", " ", "c", "o", "m", "p", "e", "t", "e", "n", "c", "i", "e", "s">>,
      <<"U+5B78", "U+7FD2", "U+76EE", "U+6A19">>,
      <<"U+6559", "U+5B78", "U+76EE", "U+6A19">>,
      <<"U+8AB2", "U+7A0B", "U+76EE", "U+6A19">>,
      <<"U+5B78", "U+751F", "U+5C07", "U+80FD", "U+5920">>,
      <<"U+5B78", "U+7FD2", "U+6210", "U+679C">>,
      <<"U+672C", "U+8AB2", "U+7A0B", "U+65E8", "U+5728">>,
      <<"U+5B78", "U+7FD2", "U+91CD", "U+9EDE">>,
      <<"U+6838", "U+5FC3", "U+80FD", "U+529B">>>>

\* the character classes of the question-number patterns
DigitChars == {Digits[i] : i \in 1..Len(Digits)}

ChineseNumeralChars ==
    {"U+4E00", "U+4E8C", "U+4E09", "U+56DB", "U+4E94", "U+516D", "U+4E03", "U+516B",
     "U+4E5D", "U+5341"}

RomanNumeralChars == {"I", "V", "X", "L", "C", "D", "M"}

\* [\.)。]
NumberPunctuation == {".", ")", "U+3002"}

\* the position of the first character at or after i that is not whitespace (\s*)
RECURSIVE SkipSpace(_, _)
SkipSpace(s, i) ==
    IF i <= Len(s) /\ s[i] \in Whitespace THEN SkipSpace(s, i + 1) ELSE i

\* the position after the longest run of characters of the class that starts at i
RECURSIVE SkipClass(_, _, _)
SkipClass(s, i, class) ==
    IF i <= Len(s) /\ s[i] \in class THEN SkipClass(s, i + 1, class) ELSE i

NoMatch == [matched |-> FALSE, group |-> <<>>, end |-> 0]

\* re.match(r'^\s*(C+[\.)。])', line) for a character class C: group(1) and end()
MatchNumbered(line, class) ==
    LET from == SkipSpace(line, 1)
        to   == SkipClass(line, from, class)
    IN  IF to > from /\ to <= Len(line) /\ line[to] \in NumberPunctuation
        THEN [matched |-> TRUE, group |-> SubSeq(line, from, to), end |-> to]
        ELSE NoMatch

\* re.match(r'^\s*第\s*(\d+)\s*題', line): group(1) and end()
MatchNumberedDi(line) ==
    LET di    == SkipSpace(line, 1)
        from  == SkipSpace(line, di + 1)
        to    == SkipClass(line, from, DigitChars)
        ti    == SkipSpace(line, to)
    IN  IF /\ di <= Len(line) /\ line[di] = "U+7B2C"
           /\ to > from
           /\ ti <= Len(line) /\ line[ti] = "U+984C"
        THEN [matched |-> TRUE, group |-> SubSeq(line, from, to - 1), end |-> ti]
        ELSE NoMatch

\* the number of patterns in patterns['question_number']
QuestionNumberPatterns == 4

\* re.match(patterns['question_number'][k - 1], line)
match_question_number(k, line) ==
    CASE k = 1 -> MatchNumbered(line, DigitChars)
      [] k = 2 -> MatchNumbered(line, ChineseNumeralChars)
      [] k = 3 -> MatchNumbered(line, RomanNumeralChars)
      [] k = 4 -> MatchNumberedDi(line)

\* any(term in text for term in terms)
AnyIn(terms, text) == \E i \in 1..Len(terms) : Contains(text, terms[i])

QUESTION_COUNT_THRESHOLD == 3

\* the matches counted by the loops of _contains_multiple_questions over the first n lines
RECURSIVE question_count(_, _)
question_count(lines, n) ==
    IF n = 0 THEN 0
    ELSE question_count(lines, n - 1)
         + Cardinality({k \in 1..QuestionNumberPatterns :
                            match_question_number(k, lines[n]).matched})

\* _contains_multiple_questions with a threshold of two question numbers
contains_two_questions(text) ==
    LET lines == Split(text, "\n")
    IN  question_count(lines, Len(lines)) >= QUESTION_COUNT_THRESHOLD - 1

\* EducationalContentAnalyzer._contains_multiple_questions(text)
contains_multiple_questions(text) ==
    LET lines == Split(text, "\n")
    IN  question_count(lines, Len(lines)) >= QUESTION_COUNT_THRESHOLD

\* _identify_document_type with the exam rule tried before the syllabus rule
identify_document_type_exam_first(parsing_result) ==
    LET text == Lower(parsing_result.text)
    IN  IF AnyIn(EXAM_TERMS, text) THEN EXAM
        ELSE IF AnyIn(SYLLABUS_TERMS, text) THEN SYLLABUS
        ELSE IF AnyIn(WORKSHEET_TERMS, text) THEN WORKSHEET
        ELSE IF AnyIn(LESSON_PLAN_TERMS, text) THEN LESSON_PLAN
        ELSE IF AnyIn(LECTURE_TERMS, text) THEN LECTURE_NOTES
        ELSE IF contains_multiple_questions(text)
             THEN IF AnyIn(SCORING_TERMS, text) THEN EXAM ELSE WORKSHEET
        ELSE UNKNOWN

\* EducationalContentAnalyzer._identify_document_type(parsing_result)
identify_document_type(parsing_result) ==
    LET text == Lower(parsing_result.text)
    IN  IF AnyIn(SYLLABUS_TERMS, text) THEN SYLLABUS
        ELSE IF AnyIn(EXAM_TERMS, text) THEN EXAM
        ELSE IF AnyIn(WORKSHEET_TERMS, text) THEN WORKSHEET
        ELSE IF AnyIn(LESSON_PLAN_TERMS, text) THEN LESSON_PLAN
        ELSE IF AnyIn(LECTURE_TERMS, text) THEN LECTURE_NOTES
        ELSE IF contains_multiple_questions(text)
             THEN IF AnyIn(SCORING_TERMS, text) THEN EXAM ELSE WORKSHEET
        ELSE UNKNOWN

\* the first pattern of patterns['question_number'] that matches the line, 0 if none
first_question_pattern(line) ==
    LET hits == {k \in 1..QuestionNumberPatterns : match_question_number(k, line).matched}
    IN  IF hits = {} THEN 0 ELSE CHOOSE k \in hits : \A j \in hits : k <= j

OptionLabels == {"A", "B", "C", "D"}

\* [\.、]
OptionPunctuation == {".", "U+3001"}

\* re.match(r'^\s*([A-D])[\.、](.*)$', line): group(1) and group(2)
match_option(line) ==
    LET at == SkipSpace(line, 1)
    IN  IF /\ at + 1 <= Len(line)
           /\ line[at] \in OptionLabels
           /\ line[at + 1] \in OptionPunctuation
        THEN [matched |-> TRUE, label |-> <<line[at]>>,
              text |-> SubSeq(line, at + 2, Len(line))]
        ELSE [matched |-> FALSE, label |-> <<>>, text |-> <<>>]

\* current_question = None
NoQuestion == <<>>

\* the body of the loop of _extract_questions for one line
extract_questions_line(state, line) ==
    LET k == first_question_pattern(line)
    IN  IF k # 0
        THEN LET match == match_question_number(k, line)
             IN  [questions |-> IF state.current # NoQuestion
                                THEN Append(state.questions, state.current)
                                ELSE state.questions,
                  current |-> [number |-> match.group,
                               text |-> Strip(SubSeq(line, match.end + 1, Len(line))),
                               options |-> <<>>,
                               sub_questions |-> <<>>]]
        ELSE IF state.current # NoQuestion
        THEN LET option_match == match_option(line)
             IN  IF option_match.matched
                 THEN [state EXCEPT !.current.options =
                          Append(@, [label |-> option_match.label,
                                     text |-> Strip(option_match.text)])]
                 ELSE IF Strip(line) # <<>>
                 THEN [state EXCEPT !.current.text = @ \o <<"\n">> \o Strip(line)]
                 ELSE state
        ELSE state

\* the loop of _extract_questions over the first n lines
RECURSIVE extract_questions_loop(_, _)
extract_questions_loop(lines, n) ==
    IF n = 0 THEN [questions |-> <<>>, current |-> NoQuestion]
    ELSE extract_questions_line(extract_questions_loop(lines, n - 1), lines[n])

\* a variant of _extract_questions whose list lives on the analyzer instance and is not
\* cleared: an analysis that follows another one returns its records twice
extract_questions_accumulating(parsing_result) ==
    LET lines == Split(parsing_result.text, "\n")
        state == extract_questions_loop(lines, Len(lines))
        found == IF state.current # NoQuestion
                 THEN Append(state.questions, state.current)
                 ELSE state.questions
    IN  IF last.op = "analyze" THEN found \o found ELSE found

\* a variant of _extract_questions without the append that follows the loop: the record
\* that is open when the text ends is lost
extract_questions_closed_only(parsing_result) ==
    LET lines == Split(parsing_result.text, "\n")
    IN  extract_questions_loop(lines, Len(lines)).questions

\* EducationalContentAnalyzer._extract_questions(parsing_result)
extract_questions(parsing_result) ==
    LET lines == Split(parsing_result.text, "\n")
        state == extract_questions_loop(lines, Len(lines))
    IN  IF state.current # NoQuestion
        THEN Append(state.questions, state.current)
        ELSE state.questions

\* [\d\.\)、]
ItemMarkers == DigitChars \cup {".", ")", "U+3001"}

\* the end of the match of \n\s*[\d\.\)、] that starts at position i, 0 if there is none
item_separator_end(s, i) ==
    LET at == SkipSpace(s, i + 1)
    IN  IF i <= Len(s) /\ s[i] = "\n" /\ at <= Len(s) /\ s[at] \in ItemMarkers
        THEN at ELSE 0

\* re.split(r'\n\s*[\d\.\)、]', s)
RECURSIVE split_items(_)
split_items(s) ==
    LET hits == {i \in 1..Len(s) : item_separator_end(s, i) # 0}
    IN  IF hits = {} THEN <<s>>
        ELSE LET i == CHOOSE h \in hits : \A j \in hits : h <= j
             IN  <<SubSeq(s, 1, i - 1)>>
                 \o split_items(SubSeq(s, item_separator_end(s, i) + 1, Len(s)))

\* [item.strip() for item in items if item.strip()]
RECURSIVE stripped_items(_)
stripped_items(items) ==
    IF items = <<>> THEN <<>>
    ELSE (IF Strip(Head(items)) # <<>> THEN <<Strip(Head(items))>> ELSE <<>>)
         \o stripped_items(Tail(items))

\* the first keyword of patterns['learning_objectives'] contained in the text, 0 if none
first_objective_keyword(text) ==
    LET hits == {k \in 1..Len(LEARNING_OBJECTIVES) : Contains(text, LEARNING_OBJECTIVES[k])}
    IN  IF hits = {} THEN 0 ELSE CHOOSE k \in hits : \A j \in hits : k <= j

\* EducationalContentAnalyzer._extract_learning_objectives(parsing_result)
extract_learning_objectives(parsing_result) ==
    LET text == parsing_result.text
        k    == first_objective_keyword(text)
    IN  IF k = 0 THEN <<>>
        ELSE LET objective_keyword == LEARNING_OBJECTIVES[k]
                 start_pos == Find(text, objective_keyword, 0) + Len(objective_keyword)
                 found     == Find(text, <<"\n", "\n">>, start_pos)
                 end_pos   == IF found = -1 THEN Len(text) ELSE found
                 objective_text == Strip(SubSeq(text, start_pos + 1, end_pos))
             IN  IF objective_text # <<>>
                 THEN stripped_items(split_items(objective_text))
                 ELSE <<>>

MSG_AI_UNAVAILABLE ==
    <<"A", "I", " ", "s", "e", "r", "v", "i", "c", "e", " ", "u", "n", "a", "v", "a", "i", "l",
      "a", "b", "l", "e">>

RESPONSE_JSON ==
    <<"{", "\"", "e", "d", "u", "c", "a", "t", "i", "o", "n", "a", "l", "_", "l", "e", "v",
      "e", "l", "\"", ":", " ", "\"", "u", "n", "i", "v", "e", "r", "s", "i", "t", "y", "\"",
      "}">>

RESPONSE_PLAIN ==
    <<"T", "h", "i", "s", " ", "l", "o", "o", "k", "s", " ", "l", "i", "k", "e", " ", "a", " ",
      "s", "y", "l", "l", "a", "b", "u", "s", ".">>

STR_UNIVERSITY == <<"u", "n", "i", "v", "e", "r", "s", "i", "t", "y">>

EXC_AI ==
    <<"r", "a", "t", "e", " ", "l", "i", "m", "i", "t", " ", "e", "x", "c", "e", "e", "d", "e",
      "d">>

\* the analyzer is built without an AI service or with one
NoService == "None"

AiServices == {NoService, "AIService"}

\* json.loads(response) on the responses the AI service gives here
json_loads(response) ==
    IF response = RESPONSE_JSON
    THEN Return([educational_level |-> STR_UNIVERSITY])
    ELSE Raise("JSONDecodeError", response)

PROMPT_TEXT_LIMIT == 4000

\* text[:n]
Truncate(text, n) == SubSeq(text, 1, IF Len(text) < n THEN Len(text) ELSE n)

\* the prompt _enhance_with_ai builds: the template chosen by document type around text[:4000]
prompt_for(text, doc_type) ==
    [template |-> IF doc_type \in {SYLLABUS, WORKSHEET, EXAM} THEN doc_type ELSE "general",
     text |-> Truncate(text, PROMPT_TEXT_LIMIT)]

\* the prompts _enhance_with_ai sends to the AI service
enhance_with_ai_calls(ai_service, parsing_result, doc_type) ==
    IF ai_service = NoService THEN <<>>
    ELSE <<prompt_for(parsing_result.text, doc_type)>>

\* EducationalContentAnalyzer._enhance_with_ai(parsing_result, doc_type), where reply is
\* the outcome of ai_service.complete_prompt(prompt)
enhance_with_ai(ai_service, parsing_result, doc_type, reply) ==
    IF ai_service = NoService THEN Return([error |-> MSG_AI_UNAVAILABLE])
    ELSE IF reply.raised THEN Return([error |-> reply.exc.msg])
    ELSE LET parsed == json_loads(reply.value)
         IN  IF ~parsed.raised THEN Return(parsed.value)
             ELSE IF parsed.exc.type = "JSONDecodeError"
             THEN Return([raw_response |-> reply.value])
             ELSE Return([error |-> parsed.exc.msg])

\* the educational_elements analyze fills in for a document type
educational_elements(parsing_result, doc_type) ==
    IF doc_type = WORKSHEET THEN [questions |-> extract_questions(parsing_result)]
    ELSE IF doc_type = SYLLABUS
    THEN [objectives |-> extract_learning_objectives(parsing_result)]
    ELSE <<>>

\* a variant of analyze that enhances the result whether or not it has an AI service
analyze_always_enhancing(ai_service, parsing_result, reply) ==
    LET doc_type == identify_document_type(parsing_result)
        ai_analysis == enhance_with_ai(ai_service, parsing_result, doc_type, reply)
    IN  [document_type |-> doc_type,
         educational_elements |-> educational_elements(parsing_result, doc_type),
         structure_analysis |-> <<>>,
         ai_enhanced_analysis |-> ai_analysis.value]

\* EducationalContentAnalyzer(ai_service).analyze(parsing_result)
analyze(ai_service, parsing_result, reply) ==
    LET doc_type == identify_document_type(parsing_result)
        result   == [document_type |-> doc_type,
                     educational_elements |->
                         educational_elements(parsing_result, doc_type),
                     structure_analysis |-> <<>>]
    IN  IF ai_service = NoService THEN result
        ELSE LET ai_analysis == enhance_with_ai(ai_service, parsing_result, doc_type, reply)
             IN  IF ai_analysis.raised
                 THEN result @@ [ai_analysis_error |-> ai_analysis.exc.msg]
                 ELSE result @@ [ai_enhanced_analysis |-> ai_analysis.value]

\* the prompts analyze sends to the AI service
analyze_calls(ai_service, parsing_result) ==
    enhance_with_ai_calls(ai_service, parsing_result,
                          identify_document_type(parsing_result))

(***************************************************************************)
(* The texts the analyzer is given.                                        *)
(***************************************************************************)
\* "Course Syllabus"
LINE_SYLLABUS == <<"C", "o", "u", "r", "s", "e", " ", "S", "y", "l", "l", "a", "b", "u", "s">>
\* "課程大綱"
LINE_ZH_SYLLABUS == <<"U+8AB2", "U+7A0B", "U+5927", "U+7DB1">>
\* "Final Exam"
LINE_EXAM == <<"F", "i", "n", "a", "l", " ", "E", "x", "a", "m">>
\* "Worksheet 3"
LINE_WORKSHEET == <<"W", "o", "r", "k", "s", "h", "e", "e", "t", " ", "3">>
\* "Lesson Plan"
LINE_LESSON_PLAN == <<"L", "e", "s", "s", "o", "n", " ", "P", "l", "a", "n">>
\* "Lecture 5"
LINE_LECTURE == <<"L", "e", "c", "t", "u", "r", "e", " ", "5">>
\* "Score: 10"
LINE_SCORE == <<"S", "c", "o", "r", "e", ":", " ", "1", "0">>
\* "成績"
LINE_ZH_SCORE == <<"U+6210", "U+7E3E">>
\* "Learning Objectives"
LINE_OBJECTIVES ==
    <<"L", "e", "a", "r", "n", "i", "n", "g", " ", "O", "b", "j", "e", "c", "t", "i", "v", "e",
      "s">>
\* "學習目標"
LINE_ZH_OBJECTIVES == <<"U+5B78", "U+7FD2", "U+76EE", "U+6A19">>
\* "1. What is 2+2?"
LINE_Q_DOT == <<"1", ".", " ", "W", "h", "a", "t", " ", "i", "s", " ", "2", "+", "2", "?">>
\* " 2) Why"
LINE_Q_PAREN == <<" ", "2", ")", " ", "W", "h", "y">>
\* "三。Sum"
LINE_Q_ZH == <<"U+4E09", "U+3002", "S", "u", "m">>
\* "IV. Part"
LINE_Q_ROMAN == <<"I", "V", ".", " ", "P", "a", "r", "t">>
\* "第 5 題 Solve"
LINE_Q_DI == <<"U+7B2C", " ", "5", " ", "U+984C", " ", "S", "o", "l", "v", "e">>
\* "A. 3"
LINE_OPT_DOT == <<"A", ".", " ", "3">>
\* "B) 4"
LINE_OPT_PAREN == <<"B", ")", " ", "4">>
\* "C、5"
LINE_OPT_ZH == <<"C", "U+3001", "5">>
\* ""
LINE_BLANK == <<>>
\* "Next section"
LINE_PLAIN == <<"N", "e", "x", "t", " ", "s", "e", "c", "t", "i", "o", "n">>

\* Scenario 1: a learning-objectives keyword followed by a numbered list
SCENARIO_1_TEXT ==
    <<"U+5B78", "U+7FD2", "U+76EE", "U+6A19", "\n", "1", ".", " ", "U", "n", "d", "e", "r",
      "s", "t", "a", "n", "d", " ", "f", "r", "a", "c", "t", "i", "o", "n", "s", "\n", "2",
      ".", " ", "A", "p", "p", "l", "y", " ", "f", "r", "a", "c", "t", "i", "o", "n", "s",
      "\n", "\n", "N", "e", "x", "t", " ", "s", "e", "c", "t", "i", "o", "n">>
\* Scenario 2: three numbered questions with their options on the line, and a scoring keyword
SCENARIO_2_TEXT ==
    <<"1", ".", " ", "W", "h", "a", "t", " ", "i", "s", " ", "2", "+", "2", "?", " ", "A", ".",
      " ", "3", " ", "B", ".", " ", "4", " ", "C", ".", " ", "5", "\n", "1", ".", " ", "W",
      "h", "a", "t", " ", "i", "s", " ", "2", "+", "2", "?", " ", "A", ".", " ", "3", " ", "B",
      ".", " ", "4", " ", "C", ".", " ", "5", "\n", "1", ".", " ", "W", "h", "a", "t", " ",
      "i", "s", " ", "2", "+", "2", "?", " ", "A", ".", " ", "3", " ", "B", ".", " ", "4", " ",
      "C", ".", " ", "5", "\n", "U+6210", "U+7E3E">>

\* the items of the list of Scenario 1 and a keyword line in lower case
ITEM_UNDERSTAND ==
    <<"U", "n", "d", "e", "r", "s", "t", "a", "n", "d", " ", "f", "r", "a", "c", "t", "i", "o",
      "n", "s">>

ITEM_APPLY == <<"A", "p", "p", "l", "y", " ", "f", "r", "a", "c", "t", "i", "o", "n", "s">>

LINE_LOWER_OBJECTIVES ==
    <<"l", "e", "a", "r", "n", "i", "n", "g", " ", "o", "b", "j", "e", "c", "t", "i", "v", "e",
      "s">>

\* the markers of the first and of the second item of a list: "1. " and "2. ", "1) " and
\* "2) ", "1、" and "2、", "- " and "- "
ListMarkers ==
    {<< <<"1", ".", " ">>, <<"2", ".", " ">> >>,
     << <<"1", ")", " ">>, <<"2", ")", " ">> >>,
     << <<"1", "U+3001">>, <<"2", "U+3001">> >>,
     << <<"-", " ">>, <<"-", " ">> >>}

\* a syllabus with a list of objectives: a line with a syllabus keyword, a line with a
\* learning-objectives keyword, the two items behind their markers, a blank line and a
\* line after it
SyllabusText(header, keyword, markers, after) ==
    Join(<<header, keyword, markers[1] \o ITEM_UNDERSTAND, markers[2] \o ITEM_APPLY,
           LINE_BLANK, after>>, "\n")

SyllabusTexts ==
    {SyllabusText(header, keyword, markers, after) :
        header \in {LINE_SYLLABUS, LINE_ZH_SYLLABUS},
        keyword \in {LINE_LOWER_OBJECTIVES, LINE_ZH_OBJECTIVES},
        markers \in ListMarkers,
        after \in {LINE_PLAIN, LINE_Q_DOT}}


MaxLines == 2

QuestionRun == 3

\* lines with a keyword of a classification rule or of the objectives list
KeywordLines ==
    {LINE_SYLLABUS, LINE_ZH_SYLLABUS, LINE_EXAM, LINE_WORKSHEET, LINE_LESSON_PLAN,
     LINE_LECTURE, LINE_SCORE, LINE_ZH_SCORE, LINE_OBJECTIVES, LINE_ZH_OBJECTIVES}

\* lines that start with a question number of one of the four patterns
QuestionLines == {LINE_Q_DOT, LINE_Q_PAREN, LINE_Q_ZH, LINE_Q_ROMAN, LINE_Q_DI}

\* lines that look like an answer option, an empty line and a line of plain text
OtherLines == {LINE_OPT_DOT, LINE_OPT_PAREN, LINE_OPT_ZH, LINE_BLANK, LINE_PLAIN}

Vocabulary == KeywordLines \cup QuestionLines \cup OtherLines

\* texts of up to MaxLines lines, texts of three numbered lines followed by one more
\* line, syllabuses with a list of objectives, and the texts of the specification's
\* scenarios
\* worksheets of two questions, each followed by an option, a blank or a plain line
WorksheetTexts ==
    {Join(<<LINE_WORKSHEET, first, after_first, second, after_second>>, "\n") :
         first \in {LINE_Q_DOT, LINE_Q_DI}, after_first \in OtherLines,
         second \in {LINE_Q_PAREN, LINE_Q_ROMAN}, after_second \in OtherLines}

AnalyzerTexts ==
    {Join(lines, "\n") : lines \in SeqUpTo(Vocabulary, MaxLines)}
    \cup {Join(run \o <<line>>, "\n") :
              run \in [1..QuestionRun -> {LINE_Q_DOT, LINE_Q_ZH, LINE_Q_ROMAN}],
              line \in Vocabulary}
    \cup SyllabusTexts
    \cup WorksheetTexts
    \cup {SCENARIO_1_TEXT, SCENARIO_2_TEXT}

\* a worksheet with one question and two options
WORKSHEET_TEXT == Join(<<LINE_WORKSHEET, LINE_Q_DOT, LINE_OPT_DOT, LINE_OPT_ZH>>, "\n")

\* the texts analysed between two analyses of one text
BetweenTexts == {WORKSHEET_TEXT, SCENARIO_2_TEXT}

\* the outcomes of ai_service.complete_prompt(prompt)
AiReplies == {Return(RESPONSE_JSON), Return(RESPONSE_PLAIN), Raise("APIError", EXC_AI)}

\* no AI service, no reply
NoReply == Return(<<>>)

(***************************************************************************)
(* AIDocumentAnalyzer: the educational analysis followed by an AI analysis *)
(* of the requested depth and, for a deep analysis, a relationship map.    *)
(***************************************************************************)
BASIC_TEXT_LIMIT == 2000

STANDARD_TEXT_LIMIT == 3500

\* "Could not structure relationship data"
MSG_RELATIONSHIP_MAP ==
    <<"C", "o", "u", "l", "d", " ", "n", "o", "t", " ", "s", "t", "r", "u", "c", "t", "u", "r",
      "e", " ", "r", "e", "l", "a", "t", "i", "o", "n", "s", "h", "i", "p", " ", "d", "a", "t",
      "a">>

\* "Relationship analysis failed"
MSG_RELATIONSHIP_FAILED ==
    <<"R", "e", "l", "a", "t", "i", "o", "n", "s", "h", "i", "p", " ", "a", "n", "a", "l", "y",
      "s", "i", "s", " ", "f", "a", "i", "l", "e", "d">>

\* the text of the relationship prompt, which is not an f-string
RELATIONSHIP_PROMPT_TEXT == <<"{", "t", "e", "x", "t", "[", ":", "3", "5", "0", "0", "]", "}">>

\* "Parse failed"
MSG_PARSE_FAILED == <<"P", "a", "r", "s", "e", " ", "f", "a", "i", "l", "e", "d">>

\* AIDocumentAnalyzer._get_basic_analysis(text, doc_type), where reply is the outcome of
\* ai_service.complete_prompt(prompt)
get_basic_analysis(text, doc_type, reply) ==
    IF reply.raised THEN [error |-> reply.exc.msg]
    ELSE LET parsed == json_loads(reply.value)
         IN  IF ~parsed.raised THEN parsed.value
             ELSE IF parsed.exc.type = "JSONDecodeError" THEN [summary |-> reply.value]
             ELSE [error |-> parsed.exc.msg]

\* AIDocumentAnalyzer._get_standard_analysis(text, doc_type, edu_analysis)
get_standard_analysis(text, doc_type, reply) ==
    IF reply.raised THEN [error |-> reply.exc.msg]
    ELSE LET parsed == json_loads(reply.value)
         IN  IF ~parsed.raised THEN parsed.value
             ELSE IF parsed.exc.type = "JSONDecodeError" THEN [analysis |-> reply.value]
             ELSE [error |-> parsed.exc.msg]

\* a variant of _get_deep_analysis that reports a reply that is not JSON as an error
get_deep_analysis_strict(text, doc_type, reply) ==
    IF reply.raised THEN [error |-> reply.exc.msg]
    ELSE LET parsed == json_loads(reply.value)
         IN  IF ~parsed.raised THEN parsed.value ELSE [error |-> parsed.exc.msg]

\* AIDocumentAnalyzer._get_deep_analysis(text, doc_type, edu_analysis)
get_deep_analysis(text, doc_type, reply) ==
    IF reply.raised THEN [error |-> reply.exc.msg]
    ELSE LET parsed == json_loads(reply.value)
         IN  IF ~parsed.raised THEN parsed.value
             ELSE IF parsed.exc.type = "JSONDecodeError"
             THEN [detailed_analysis |-> reply.value]
             ELSE [error |-> parsed.exc.msg]

\* the prompt of the analysis of a depth
depth_prompt(text, doc_type, depth) ==
    IF depth = "basic"
    THEN [template |-> "basic", doc_type |-> doc_type,
          text |-> Truncate(text, BASIC_TEXT_LIMIT)]
    ELSE IF depth = "deep"
    THEN [template |-> "deep", doc_type |-> doc_type,
          text |-> Truncate(text, PROMPT_TEXT_LIMIT)]
    ELSE [template |-> "standard", doc_type |-> doc_type,
          text |-> Truncate(text, STANDARD_TEXT_LIMIT)]

\* AIDocumentAnalyzer._perform_depth_specific_analysis(parsing_result, edu_analysis, depth)
perform_depth_specific_analysis(parsing_result, edu_analysis, depth, reply) ==
    LET document_type == DictGet(edu_analysis, "document_type", UNKNOWN)
    IN  IF depth = "basic"
        THEN get_basic_analysis(parsing_result.text, document_type, reply)
        ELSE IF depth = "deep"
        THEN get_deep_analysis(parsing_result.text, document_type, reply)
        ELSE get_standard_analysis(parsing_result.text, document_type, reply)

\* AIDocumentAnalyzer._analyze_content_relationships(text, edu_analysis)
analyze_content_relationships(text, edu_analysis, reply) ==
    IF reply.raised THEN Return([error |-> reply.exc.msg])
    ELSE LET parsed == json_loads(reply.value)
         IN  IF ~parsed.raised THEN Return(parsed.value)
             ELSE IF parsed.exc.type = "JSONDecodeError"
             THEN Return([relationship_map |-> MSG_RELATIONSHIP_MAP])
             ELSE Return([error |-> parsed.exc.msg])

\* the prompts analyze_document sends: the enhancement of the educational analysis, the
\* analysis of the depth and, for a deep analysis of a parse result without error, the
\* relationship map
analyze_document_calls(parsing_result, analysis_depth, edu_analysis) ==
    enhance_with_ai_calls("AIService", parsing_result, edu_analysis.document_type)
    \o <<depth_prompt(parsing_result.text, edu_analysis.document_type, analysis_depth)>>
    \o (IF analysis_depth = "deep" /\ parsing_result.error \in {None, <<>>}
        THEN <<[template |-> "relationships", text |-> RELATIONSHIP_PROMPT_TEXT]>>
        ELSE <<>>)

\* the result analyze_document combines from the educational analysis, the analysis of
\* the depth and the outcome of _analyze_content_relationships
analyze_document_result(parsing_result, analysis_depth, edu_analysis, ai_enhancement, relationships) ==
    LET result == [document_type |-> DictGet(edu_analysis, "document_type", UNKNOWN),
                   structure |-> parsing_result.structure,
                   educational_elements |->
                       DictGet(edu_analysis, "educational_elements", <<>>),
                   ai_insights |-> ai_enhancement]
    IN  IF analysis_depth = "deep" /\ parsing_result.error \in {None, <<>>}
        THEN IF relationships.raised
             THEN result @@ [errors |-> DictGet(result, "errors", <<>>)
                                        \o <<MSG_RELATIONSHIP_FAILED>>]
             ELSE result @@ [content_relationships |-> relationships.value]
        ELSE result

\* analyze_document after the educational analysis: the prompts sent, the educational
\* analysis and the outcome of the call
analyze_document_with(parsing_result, analysis_depth, replies, edu_analysis) ==
    [calls |-> analyze_document_calls(parsing_result, analysis_depth, edu_analysis),
     edu_analysis |-> edu_analysis,
     out |-> Return(analyze_document_result(
                 parsing_result, analysis_depth, edu_analysis,
                 perform_depth_specific_analysis(parsing_result, edu_analysis,
                                                 analysis_depth, replies[2]),
                 analyze_content_relationships(parsing_result.text, edu_analysis,
                                               replies[3])))]

\* a variant of analyze_document that lets the first failure of an AI call reach the
\* caller
analyze_document_aborting(parsing_result, analysis_depth, replies) ==
    LET run == analyze_document_with(parsing_result, analysis_depth, replies,
                                     analyze("AIService", parsing_result, replies[1]))
    IN  IF \E i \in 1..Len(run.calls) : replies[i].raised
        THEN [calls |-> SubSeq(run.calls, 1,
                               CHOOSE i \in 1..Len(run.calls) :
                                   /\ replies[i].raised
                                   /\ \A j \in 1..(i - 1) : ~replies[j].raised),
              edu_analysis |-> run.edu_analysis,
              out |-> Raise("APIError", EXC_AI)]
        ELSE run

\* a variant of analyze_document that asks for the relationship map at every depth
analyze_document_always_mapping(parsing_result, analysis_depth, replies) ==
    LET run == analyze_document_with(parsing_result, "deep", replies,
                                     analyze("AIService", parsing_result, replies[1]))
    IN  [calls |-> <<run.calls[1],
                     depth_prompt(parsing_result.text, run.edu_analysis.document_type,
                                  analysis_depth)>> \o SubSeq(run.calls, 3, Len(run.calls)),
         edu_analysis |-> run.edu_analysis,
         out |-> Return([run.out.value EXCEPT !.ai_insights =
                     perform_depth_specific_analysis(parsing_result, run.edu_analysis,
                                                     analysis_depth, replies[2])])]

\* a variant of analyze_document that sends the prompt of the depth once more when the
\* call has failed
analyze_document_retrying(parsing_result, analysis_depth, replies) ==
    LET run == analyze_document_with(parsing_result, analysis_depth, replies,
                                     analyze("AIService", parsing_result, replies[1]))
    IN  IF replies[2].raised
        THEN [run EXCEPT !.calls = SubSeq(@, 1, 2) \o SubSeq(@, 2, Len(@))]
        ELSE run

\* AIDocumentAnalyzer(ai_service).analyze_document(parsing_result, analysis_depth), where
\* replies are the outcomes of the calls of ai_service.complete_prompt in the order of
\* the calls: the enhancement of the educational analysis, the analysis of the depth and
\* the relationship map
analyze_document(parsing_result, analysis_depth, replies) ==
    analyze_document_with(parsing_result, analysis_depth, replies,
                          analyze("AIService", parsing_result, replies[1]))

\* the depths a caller asks for; a depth that is none of the three is analysed as standard
Depths == {"basic", "standard", "deep", "full"}

\* the parse results given to analyze_document: texts of several document types, parsed
\* without and with an error
DocumentTexts == {WORKSHEET_TEXT, SCENARIO_2_TEXT, LINE_PLAIN} \cup
                 {SyllabusText(LINE_SYLLABUS, LINE_LOWER_OBJECTIVES, markers, LINE_PLAIN) :
                     markers \in ListMarkers}

ParseResults ==
    {ParsingResult([text |-> text]).value : text \in DocumentTexts}
    \cup {ParsingResult([text |-> text, optional_data |-> [error |-> MSG_PARSE_FAILED]]).value :
              text \in DocumentTexts}

(***************************************************************************)
(* The strings of the prompt library and of the OpenAI service.             *)
(***************************************************************************)
\* "You are a helpful teaching assistant."
DEFAULT_SYSTEM_CONTENT ==
    <<"Y", "o", "u", " ", "a", "r", "e", " ", "a", " ", "h", "e", "l", "p", "f", "u", "l", " ",
      "t", "e", "a", "c", "h", "i", "n", "g", " ", "a", "s", "s", "i", "s", "t", "a", "n", "t",
      ".">>
\* "gpt-4o-mini"
DEFAULT_MODEL == <<"g", "p", "t", "-", "4", "o", "-", "m", "i", "n", "i">>
\* "document_analysis"
NAME_DOCUMENT_ANALYSIS ==
    <<"d", "o", "c", "u", "m", "e", "n", "t", "_", "a", "n", "a", "l", "y", "s", "i", "s">>
\* "image_analysis"
NAME_IMAGE_ANALYSIS == <<"i", "m", "a", "g", "e", "_", "a", "n", "a", "l", "y", "s", "i", "s">>
\* "question_generation"
NAME_QUESTION_GENERATION ==
    <<"q", "u", "e", "s", "t", "i", "o", "n", "_", "g", "e", "n", "e", "r", "a", "t", "i", "o",
      "n">>
\* "1.0"
VERSION_1 == <<"1", ".", "0">>
\* "2.0"
VERSION_2 == <<"2", ".", "0">>
\* "10.0"
VERSION_10 == <<"1", "0", ".", "0">>
\* "You are an expert teaching assistant specialized in analyzing educational materials. Extract key information from the following {document_type} document. Focus on main topics, key concepts, difficulty level, and suggested learningoutcomes."
DOCUMENT_ANALYSIS_SYSTEM_CONTENT ==
    <<"Y", "o", "u", " ", "a", "r", "e", " ", "a", "n", " ", "e", "x", "p", "e", "r", "t", " ",
      "t", "e", "a", "c", "h", "i", "n", "g", " ", "a", "s", "s", "i", "s", "t", "a", "n", "t",
      " ", "s", "p", "e", "c", "i", "a", "l", "i", "z", "e", "d", " ", "i", "n", " ", "a", "n",
      "a", "l", "y", "z", "i", "n", "g", " ", "e", "d", "u", "c", "a", "t", "i", "o", "n", "a",
      "l", " ", "m", "a", "t", "e", "r", "i", "a", "l", "s", ".", " ", "E", "x", "t", "r", "a",
      "c", "t", " ", "k", "e", "y", " ", "i", "n", "f", "o", "r", "m", "a", "t", "i", "o", "n",
      " ", "f", "r", "o", "m", " ", "t", "h", "e", " ", "f", "o", "l", "l", "o", "w", "i", "n",
      "g", " ", "{", "d", "o", "c", "u", "m", "e", "n", "t", "_", "t", "y", "p", "e", "}", " ",
      "d", "o", "c", "u", "m", "e", "n", "t", ".", " ", "F", "o", "c", "u", "s", " ", "o", "n",
      " ", "m", "a", "i", "n", " ", "t", "o", "p", "i", "c", "s", ",", " ", "k", "e", "y", " ",
      "c", "o", "n", "c", "e", "p", "t", "s", ",", " ", "d", "i", "f", "f", "i", "c", "u", "l",
      "t", "y", " ", "l", "e", "v", "e", "l", ",", " ", "a", "n", "d", " ", "s", "u", "g", "g",
      "e", "s", "t", "e", "d", " ", "l", "e", "a", "r", "n", "i", "n", "g", "o", "u", "t", "c",
      "o", "m", "e", "s", ".">>
\* "Document content: {content}"
DOCUMENT_ANALYSIS_USER_CONTENT ==
    <<"D", "o", "c", "u", "m", "e", "n", "t", " ", "c", "o", "n", "t", "e", "n", "t", ":", " ",
      "{", "c", "o", "n", "t", "e", "n", "t", "}">>
\* "You are a teaching assistant with expertise in visual content analysis. Analyze the described image and identify educational concepts, topics, and potential teaching applications."
IMAGE_ANALYSIS_SYSTEM_CONTENT ==
    <<"Y", "o", "u", " ", "a", "r", "e", " ", "a", " ", "t", "e", "a", "c", "h", "i", "n", "g",
      " ", "a", "s", "s", "i", "s", "t", "a", "n", "t", " ", "w", "i", "t", "h", " ", "e", "x",
      "p", "e", "r", "t", "i", "s", "e", " ", "i", "n", " ", "v", "i", "s", "u", "a", "l", " ",
      "c", "o", "n", "t", "e", "n", "t", " ", "a", "n", "a", "l", "y", "s", "i", "s", ".", " ",
      "A", "n", "a", "l", "y", "z", "e", " ", "t", "h", "e", " ", "d", "e", "s", "c", "r", "i",
      "b", "e", "d", " ", "i", "m", "a", "g", "e", " ", "a", "n", "d", " ", "i", "d", "e", "n",
      "t", "i", "f", "y", " ", "e", "d", "u", "c", "a", "t", "i", "o", "n", "a", "l", " ", "c",
      "o", "n", "c", "e", "p", "t", "s", ",", " ", "t", "o", "p", "i", "c", "s", ",", " ", "a",
      "n", "d", " ", "p", "o", "t", "e", "n", "t", "i", "a", "l", " ", "t", "e", "a", "c", "h",
      "i", "n", "g", " ", "a", "p", "p", "l", "i", "c", "a", "t", "i", "o", "n", "s", ".">>
\* "Image description: {image_description}"
IMAGE_ANALYSIS_USER_CONTENT ==
    <<"I", "m", "a", "g", "e", " ", "d", "e", "s", "c", "r", "i", "p", "t", "i", "o", "n", ":",
      " ", "{", "i", "m", "a", "g", "e", "_", "d", "e", "s", "c", "r", "i", "p", "t", "i", "o",
      "n", "}">>
\* "You are an assessment specialist who creates high-quality educational questions. Generate {question_count} {question_type} questions about {topic} at {difficulty_level} level. Each question should test understanding of key concepts and include correct answers."
QUESTION_GEN_SYSTEM_CONTENT ==
    <<"Y", "o", "u", " ", "a", "r", "e", " ", "a", "n", " ", "a", "s", "s", "e", "s", "s", "m",
      "e", "n", "t", " ", "s", "p", "e", "c", "i", "a", "l", "i", "s", "t", " ", "w", "h", "o",
      " ", "c", "r", "e", "a", "t", "e", "s", " ", "h", "i", "g", "h", "-", "q", "u", "a", "l",
      "i", "t", "y", " ", "e", "d", "u", "c", "a", "t", "i", "o", "n", "a", "l", " ", "q", "u",
      "e", "s", "t", "i", "o", "n", "s", ".", " ", "G", "e", "n", "e", "r", "a", "t", "e", " ",
      "{", "q", "u", "e", "s", "t", "i", "o", "n", "_", "c", "o", "u", "n", "t", "}", " ", "{",
      "q", "u", "e", "s", "t", "i", "o", "n", "_", "t", "y", "p", "e", "}", " ", "q", "u", "e",
      "s", "t", "i", "o", "n", "s", " ", "a", "b", "o", "u", "t", " ", "{", "t", "o", "p", "i",
      "c", "}", " ", "a", "t", " ", "{", "d", "i", "f", "f", "i", "c", "u", "l", "t", "y", "_",
      "l", "e", "v", "e", "l", "}", " ", "l", "e", "v", "e", "l", ".", " ", "E", "a", "c", "h",
      " ", "q", "u", "e", "s", "t", "i", "o", "n", " ", "s", "h", "o", "u", "l", "d", " ", "t",
      "e", "s", "t", " ", "u", "n", "d", "e", "r", "s", "t", "a", "n", "d", "i", "n", "g", " ",
      "o", "f", " ", "k", "e", "y", " ", "c", "o", "n", "c", "e", "p", "t", "s", " ", "a", "n",
      "d", " ", "i", "n", "c", "l", "u", "d", "e", " ", "c", "o", "r", "r", "e", "c", "t", " ",
      "a", "n", "s", "w", "e", "r", "s", ".">>
\* "Content for question generation: {content}"
QUESTION_GEN_USER_CONTENT ==
    <<"C", "o", "n", "t", "e", "n", "t", " ", "f", "o", "r", " ", "q", "u", "e", "s", "t", "i",
      "o", "n", " ", "g", "e", "n", "e", "r", "a", "t", "i", "o", "n", ":", " ", "{", "c", "o",
      "n", "t", "e", "n", "t", "}">>
\* "Missing required variables: "
MSG_MISSING_VARIABLES ==
    <<"M", "i", "s", "s", "i", "n", "g", " ", "r", "e", "q", "u", "i", "r", "e", "d", " ", "v",
      "a", "r", "i", "a", "b", "l", "e", "s", ":", " ">>
\* "Single '}' encountered in format string"
MSG_SINGLE_BRACE ==
    <<"S", "i", "n", "g", "l", "e", " ", "'", "}", "'", " ", "e", "n", "c", "o", "u", "n", "t",
      "e", "r", "e", "d", " ", "i", "n", " ", "f", "o", "r", "m", "a", "t", " ", "s", "t", "r",
      "i", "n", "g">>
\* "expected '}' before end of string"
MSG_EXPECTED_BRACE ==
    <<"e", "x", "p", "e", "c", "t", "e", "d", " ", "'", "}", "'", " ", "b", "e", "f", "o", "r",
      "e", " ", "e", "n", "d", " ", "o", "f", " ", "s", "t", "r", "i", "n", "g">>
\* "Replacement index out of range for positional args tuple"
MSG_REPLACEMENT_INDEX ==
    <<"R", "e", "p", "l", "a", "c", "e", "m", "e", "n", "t", " ", "i", "n", "d", "e", "x", " ",
      "o", "u", "t", " ", "o", "f", " ", "r", "a", "n", "g", "e", " ", "f", "o", "r", " ", "p",
      "o", "s", "i", "t", "i", "o", "n", "a", "l", " ", "a", "r", "g", "s", " ", "t", "u", "p",
      "l", "e">>
\* "test_template"
NAME_TEST_TEMPLATE == <<"t", "e", "s", "t", "_", "t", "e", "m", "p", "l", "a", "t", "e">>
\* "non_existent_template"
NAME_NON_EXISTENT ==
    <<"n", "o", "n", "_", "e", "x", "i", "s", "t", "e", "n", "t", "_", "t", "e", "m", "p", "l",
      "a", "t", "e">>
\* "empty_template"
NAME_EMPTY_TEMPLATE == <<"e", "m", "p", "t", "y", "_", "t", "e", "m", "p", "l", "a", "t", "e">>
\* "escaped_template"
NAME_ESCAPED_TEMPLATE ==
    <<"e", "s", "c", "a", "p", "e", "d", "_", "t", "e", "m", "p", "l", "a", "t", "e">>
\* "brace_template"
NAME_BRACE_TEMPLATE == <<"b", "r", "a", "c", "e", "_", "t", "e", "m", "p", "l", "a", "t", "e">>
\* "You are a {role} specialized in {subject}."
TEST_SYSTEM_CONTENT ==
    <<"Y", "o", "u", " ", "a", "r", "e", " ", "a", " ", "{", "r", "o", "l", "e", "}", " ", "s",
      "p", "e", "c", "i", "a", "l", "i", "z", "e", "d", " ", "i", "n", " ", "{", "s", "u", "b",
      "j", "e", "c", "t", "}", ".">>
\* "Please {action} the following: {content}"
TEST_USER_CONTENT ==
    <<"P", "l", "e", "a", "s", "e", " ", "{", "a", "c", "t", "i", "o", "n", "}", " ", "t", "h",
      "e", " ", "f", "o", "l", "l", "o", "w", "i", "n", "g", ":", " ", "{", "c", "o", "n", "t",
      "e", "n", "t", "}">>
\* "{action}: {content} ({subject})"
TEST_USER_CONTENT_2 ==
    <<"{", "a", "c", "t", "i", "o", "n", "}", ":", " ", "{", "c", "o", "n", "t", "e", "n", "t",
      "}", " ", "(", "{", "s", "u", "b", "j", "e", "c", "t", "}", ")">>
\* "Answer {content} as {{"answer": 1}} or {{answer}}"
ESCAPED_USER_CONTENT ==
    <<"A", "n", "s", "w", "e", "r", " ", "{", "c", "o", "n", "t", "e", "n", "t", "}", " ", "a",
      "s", " ", "{", "{", "\"", "a", "n", "s", "w", "e", "r", "\"", ":", " ", "1", "}", "}",
      " ", "o", "r", " ", "{", "{", "a", "n", "s", "w", "e", "r", "}", "}">>
\* "Let S = {content"
BRACE_USER_CONTENT ==
    <<"L", "e", "t", " ", "S", " ", "=", " ", "{", "c", "o", "n", "t", "e", "n", "t">>
\* "tutor"
NAME_TUTOR == <<"t", "u", "t", "o", "r">>
\* "role"
KEY_ROLE == <<"r", "o", "l", "e">>
\* "subject"
KEY_SUBJECT == <<"s", "u", "b", "j", "e", "c", "t">>
\* "action"
KEY_ACTION == <<"a", "c", "t", "i", "o", "n">>
\* "content"
KEY_CONTENT == <<"c", "o", "n", "t", "e", "n", "t">>
\* "some"
KEY_SOME == <<"s", "o", "m", "e">>
\* "document_type"
KEY_DOCUMENT_TYPE == <<"d", "o", "c", "u", "m", "e", "n", "t", "_", "t", "y", "p", "e">>
\* "teacher"
VALUE_TEACHER == <<"t", "e", "a", "c", "h", "e", "r">>
\* "mathematics"
VALUE_MATHEMATICS == <<"m", "a", "t", "h", "e", "m", "a", "t", "i", "c", "s">>
\* "analyze"
VALUE_ANALYZE == <<"a", "n", "a", "l", "y", "z", "e">>
\* "x^2 + 5x + 6 = 0"
VALUE_EQUATION ==
    <<"x", "^", "2", " ", "+", " ", "5", "x", " ", "+", " ", "6", " ", "=", " ", "0">>
\* "variable"
VALUE_VARIABLE == <<"v", "a", "r", "i", "a", "b", "l", "e">>
\* "academic"
VALUE_ACADEMIC == <<"a", "c", "a", "d", "e", "m", "i", "c">>
\* "Direct text input"
TEXT_DIRECT ==
    <<"D", "i", "r", "e", "c", "t", " ", "t", "e", "x", "t", " ", "i", "n", "p", "u", "t">>
\* "This is a test response"
RESPONSE_TEXT ==
    <<"T", "h", "i", "s", " ", "i", "s", " ", "a", " ", "t", "e", "s", "t", " ", "r", "e", "s",
      "p", "o", "n", "s", "e">>
\* "test-model"
RESPONSE_MODEL == <<"t", "e", "s", "t", "-", "m", "o", "d", "e", "l">>
\* "gpt-4o"
OTHER_MODEL == <<"g", "p", "t", "-", "4", "o">>

(***************************************************************************)
(* PromptTemplate and PromptLibrary (utils/prompts.py).  A template is a   *)
(* record of its name, its version and its messages; a message has a role, *)
(* a content and a name (None if it has none).  A dict of template         *)
(* variables is a function on strings whose values are strings.  An        *)
(* optional dict argument is a sequence: empty for None, else the dict     *)
(* alone.  The contents formatted here have replacement fields that are    *)
(* plain names or numbers, doubled braces and single braces.               *)
(***************************************************************************)
\* [a-zA-Z0-9_]
WordChars == Range(UpperCase) \cup Range(LowerCase) \cup DigitChars \cup {"_"}

\* the position of the first character of the class at or after position i, 0 if none
next_of(s, i, class) ==
    LET hits == {j \in i..Len(s) : s[j] \in class}
    IN  IF hits = {} THEN 0 ELSE CHOOSE j \in hits : \A h \in hits : j <= h

\* re.findall(r'\{([a-zA-Z0-9_]+)\}', content) from position i on
RECURSIVE find_variables(_, _)
find_variables(content, i) ==
    LET open == next_of(content, i, {"{"})
        to   == SkipClass(content, open + 1, WordChars)
    IN  IF open = 0 THEN <<>>
        ELSE IF to > open + 1 /\ to <= Len(content) /\ content[to] = "}"
        THEN <<SubSeq(content, open + 1, to - 1)>> \o find_variables(content, to + 1)
        ELSE find_variables(content, open + 1)

\* the outcome of a conversion whose first part is known and whose rest is an outcome
Prepended(first, rest) == IF rest.raised THEN rest ELSE Return(first \o rest.value)

\* the replacement field that opens at position i: its value, then the rest
RECURSIVE str_format(_, _, _)
format_field(content, i, kwargs) ==
    LET close == next_of(content, i + 1, {"}"})
        field == SubSeq(content, i + 1, close - 1)
    IN  IF close = 0 THEN Raise("ValueError", MSG_EXPECTED_BRACE)
        ELSE IF Range(field) \subseteq DigitChars
        THEN Raise("IndexError", MSG_REPLACEMENT_INDEX)
        ELSE IF field \notin DOMAIN kwargs THEN Raise("KeyError", field)
        ELSE Prepended(kwargs[field], str_format(content, close + 1, kwargs))

\* content.format(**kwargs) from position i on
str_format(content, i, kwargs) ==
    LET brace == next_of(content, i, {"{", "}"})
    IN  IF brace = 0 THEN Return(SubSeq(content, i, Len(content)))
        ELSE IF brace > i
        THEN Prepended(SubSeq(content, i, brace - 1), str_format(content, brace, kwargs))
        ELSE IF i < Len(content) /\ content[i + 1] = content[i]
        THEN Prepended(<<content[i]>>, str_format(content, i + 2, kwargs))
        ELSE IF content[i] = "{" THEN format_field(content, i, kwargs)
        ELSE Raise("ValueError", MSG_SINGLE_BRACE)

\* [var for var in variables if var not in kwargs]
RECURSIVE missing_vars(_, _)
missing_vars(variables, kwargs) ==
    IF variables = <<>> THEN <<>>
    ELSE (IF Head(variables) \in DOMAIN kwargs THEN <<>> ELSE <<Head(variables)>>)
         \o missing_vars(Tail(variables), kwargs)

\* ', '.join(parts)
RECURSIVE JoinStr(_, _)
JoinStr(parts, sep) ==
    IF parts = <<>> THEN <<>>
    ELSE IF Len(parts) = 1 THEN parts[1]
    ELSE parts[1] \o sep \o JoinStr(Tail(parts), sep)

\* the body of the loop of PromptTemplate.format for one message
format_message(msg, kwargs) ==
    IF missing_vars(find_variables(msg.content, 1), kwargs) # <<>>
    THEN Raise("ValueError",
               MSG_MISSING_VARIABLES
               \o JoinStr(missing_vars(find_variables(msg.content, 1), kwargs), <<",", " ">>))
    ELSE IF str_format(msg.content, 1, kwargs).raised
    THEN str_format(msg.content, 1, kwargs)
    ELSE Return([role |-> msg.role, content |-> str_format(msg.content, 1, kwargs).value]
                @@ (IF msg.name \notin {None, <<>>} THEN [name |-> msg.name] ELSE <<>>))

\* PromptTemplate.format(**kwargs) over the messages from the n-th on
RECURSIVE format_from(_, _, _)
format_from(template_messages, n, kwargs) ==
    IF n > Len(template_messages) THEN Return(<<>>)
    ELSE IF format_message(template_messages[n], kwargs).raised
    THEN format_message(template_messages[n], kwargs)
    ELSE Prepended(<<format_message(template_messages[n], kwargs).value>>,
                   format_from(template_messages, n + 1, kwargs))

\* template.format(**kwargs)
format(template, kwargs) == format_from(template.template_messages, 1, kwargs)

\* PromptMessage(role, content, name=None)
PromptMessage(role, content) == [role |-> role, content |-> content, name |-> None]

\* f'{template.name}_v{template.version}'
template_key(name, version) == name \o <<"_", "v">> \o version

\* PromptLibrary.add_template(template) on the dict d
add_template(d, template) ==
    DictStore(d, template_key(template.name, template.version), template)

\* the code point order of the characters of a version
VersionChars == <<".">> \o Digits

CharRank(c) == CHOOSE i \in 1..Len(VersionChars) : VersionChars[i] = c

\* a < b for two strs of version characters
RECURSIVE StrLess(_, _)
StrLess(a, b) ==
    IF b = <<>> THEN FALSE
    ELSE IF a = <<>> THEN TRUE
    ELSE IF a[1] = b[1] THEN StrLess(Tail(a), Tail(b))
    ELSE CharRank(a[1]) < CharRank(b[1])

\* the entries whose key starts with f'{name}_v'
matching_templates(d, name) ==
    {i \in 1..Len(d) : StartsWith(d[i].k, name \o <<"_", "v">>)}

\* PromptLibrary.get_template(name): the matching template with the greatest version,
\* the earliest added of those with that version (sorted is stable)
get_template(d, name) ==
    IF matching_templates(d, name) = {} THEN Raise("KeyError", name)
    ELSE Return(d[CHOOSE i \in matching_templates(d, name) :
                      \A j \in matching_templates(d, name) :
                          \/ StrLess(d[j].v.version, d[i].v.version)
                          \/ d[j].v.version = d[i].v.version /\ i <= j].v)

\* the templates of _initialize_default_templates
DefaultTemplates ==
    add_template(
        add_template(
            add_template(<<>>,
                [name |-> NAME_DOCUMENT_ANALYSIS, version |-> VERSION_1,
                 template_messages |->
                     <<PromptMessage("system", DOCUMENT_ANALYSIS_SYSTEM_CONTENT),
                       PromptMessage("user", DOCUMENT_ANALYSIS_USER_CONTENT)>>]),
            [name |-> NAME_IMAGE_ANALYSIS, version |-> VERSION_1,
             template_messages |->
                 <<PromptMessage("system", IMAGE_ANALYSIS_SYSTEM_CONTENT),
                   PromptMessage("user", IMAGE_ANALYSIS_USER_CONTENT)>>]),
        [name |-> NAME_QUESTION_GENERATION, version |-> VERSION_1,
         template_messages |->
             <<PromptMessage("system", QUESTION_GEN_SYSTEM_CONTENT),
               PromptMessage("user", QUESTION_GEN_USER_CONTENT)>>])

(***************************************************************************)
(* OpenAIService (services/ai/implementations/openai_service.py).  The     *)
(* reply is the outcome of client.chat.completions.create: a response with *)
(* content, model and usage, or an exception.                              *)
(***************************************************************************)
\* temperature=options.get('temperature', 0.7)
DEFAULT_TEMPERATURE == "0.7"

\* a str that is neither None nor empty
Truthy(x) == x # None /\ x # <<>>

\* an optional dict that is neither None nor empty
DictTruthy(x) == x # <<>> /\ x[1] # <<>>

\* the dict of an optional dict argument, {} for None
DictOrEmpty(x) == IF x = <<>> THEN <<>> ELSE x[1]

\* the messages of the fallback to direct text input
default_messages(text) ==
    <<[role |-> "system", content |-> DEFAULT_SYSTEM_CONTENT],
      [role |-> "user", content |-> text]>>

\* the try block of process_text: the messages of the template, or none after a KeyError
\* or ValueError (messages stays None: only its truth value is read, so None is the
\* empty list here); any other exception leaves process_text
template_messages_of(d, template_name, template_vars) ==
    IF get_template(d, template_name).raised THEN Return(<<>>)
    ELSE IF ~format(get_template(d, template_name).value, template_vars).raised
    THEN format(get_template(d, template_name).value, template_vars)
    ELSE IF format(get_template(d, template_name).value, template_vars).exc.type
                \in {"KeyError", "ValueError"}
    THEN Return(<<>>)
    ELSE format(get_template(d, template_name).value, template_vars)

\* the messages process_text sends, or the exception that leaves it before the call
messages_of(d, text, template_name, template_vars) ==
    IF Truthy(template_name) /\ DictTruthy(template_vars)
    THEN IF template_messages_of(d, template_name, template_vars[1]).raised
         THEN template_messages_of(d, template_name, template_vars[1])
         ELSE IF template_messages_of(d, template_name, template_vars[1]).value # <<>>
         THEN template_messages_of(d, template_name, template_vars[1])
         ELSE Return(default_messages(text))
    ELSE Return(default_messages(text))

\* the dict process_text returns for a response, whose usage is absent (an empty
\* sequence) or has a model_dump() (alone in the sequence)
response_dict(response) ==
    [text |-> response.content, model |-> response.model,
     usage |-> IF response.usage # <<>> THEN response.usage[1] ELSE None]

\* the rest of process_text once the messages are known: the completion calls made and
\* the outcome
process_text_with(messages, options, reply) ==
    IF messages.raised THEN [calls |-> <<>>, out |-> messages]
    ELSE [calls |-> <<[model |-> DictGet(options, "model", DEFAULT_MODEL),
                       messages |-> messages.value,
                       temperature |-> DictGet(options, "temperature", DEFAULT_TEMPERATURE)]>>,
          out |-> IF reply.raised THEN reply ELSE Return(response_dict(reply.value))]

\* a variant of process_text that sends the default messages whenever a text is given
process_text_text_first(d, text, options, template_name, template_vars, reply) ==
    process_text_with(IF text # <<>> THEN Return(default_messages(text))
                      ELSE messages_of(d, text, template_name, template_vars),
                      DictOrEmpty(options), reply)

\* OpenAIService(api_key).process_text(text, options, template_name, template_vars) with
\* the prompt library d
process_text(d, text, options, template_name, template_vars, reply) ==
    process_text_with(messages_of(d, text, template_name, template_vars),
                      DictOrEmpty(options), reply)

(***************************************************************************)
(* The templates added to the library and the arguments of process_text.   *)
(***************************************************************************)
\* the template of the test suite
TEST_TEMPLATE ==
    [name |-> NAME_TEST_TEMPLATE, version |-> VERSION_1,
     template_messages |-> <<PromptMessage("system", TEST_SYSTEM_CONTENT),
                             PromptMessage("user", TEST_USER_CONTENT)>>]

\* a later version of it with one message, which has a name
TEST_TEMPLATE_2 ==
    [name |-> NAME_TEST_TEMPLATE, version |-> VERSION_2,
     template_messages |->
         <<[role |-> "user", content |-> TEST_USER_CONTENT_2, name |-> NAME_TUTOR]>>]

\* version 10.0 of it, which sorts before 2.0
TEST_TEMPLATE_10 ==
    [name |-> NAME_TEST_TEMPLATE, version |-> VERSION_10,
     template_messages |-> <<PromptMessage("assistant", TEST_SYSTEM_CONTENT)>>]

\* PromptTemplate(name, description): template_messages defaults to the empty list
EMPTY_TEMPLATE ==
    [name |-> NAME_EMPTY_TEMPLATE, version |-> VERSION_1, template_messages |-> <<>>]

\* a template with doubled braces around a word
ESCAPED_TEMPLATE ==
    [name |-> NAME_ESCAPED_TEMPLATE, version |-> VERSION_1,
     template_messages |-> <<PromptMessage("user", ESCAPED_USER_CONTENT)>>]

\* a template with an unmatched brace
BRACE_TEMPLATE ==
    [name |-> NAME_BRACE_TEMPLATE, version |-> VERSION_1,
     template_messages |-> <<PromptMessage("system", TEST_SYSTEM_CONTENT),
                             PromptMessage("user", BRACE_USER_CONTENT)>>]

AddableTemplates ==
    {TEST_TEMPLATE, TEST_TEMPLATE_2, TEST_TEMPLATE_10, EMPTY_TEMPLATE, ESCAPED_TEMPLATE,
     BRACE_TEMPLATE}

\* most templates added to the default ones
MaxAdded == 2

TemplateNames ==
    {None, <<>>, NAME_TEST_TEMPLATE, NAME_NON_EXISTENT, NAME_DOCUMENT_ANALYSIS,
     NAME_EMPTY_TEMPLATE, NAME_ESCAPED_TEMPLATE, NAME_BRACE_TEMPLATE}

\* the variables of the test suite
VARS_TEST ==
    (KEY_ROLE :> VALUE_TEACHER) @@ (KEY_SUBJECT :> VALUE_MATHEMATICS)
    @@ (KEY_ACTION :> VALUE_ANALYZE) @@ (KEY_CONTENT :> VALUE_EQUATION)

\* template_vars: None, {}, and dicts with all, some or none of a template's variables
TemplateVars ==
    {<<>>, <<<<>>>>, <<VARS_TEST>>, <<KEY_SOME :> VALUE_VARIABLE>>,
     <<(KEY_DOCUMENT_TYPE :> VALUE_ACADEMIC) @@ (KEY_CONTENT :> VALUE_EQUATION)>>}

ProcessTexts == {TEXT_DIRECT, <<>>}

\* options: None or a dict
ProcessOptions == {<<>>, <<[model |-> OTHER_MODEL, temperature |-> "0.2"]>>}

\* the outcomes of client.chat.completions.create
CompletionReplies ==
    {Return([content |-> RESPONSE_TEXT, model |-> RESPONSE_MODEL, usage |-> <<>>]),
     Return([content |-> RESPONSE_TEXT, model |-> RESPONSE_MODEL,
             usage |-> <<[total_tokens |-> 10]>>]),
     Raise("APIError", EXC_AI)}

(***************************************************************************)
(* Concurrent calls.  A call of parse_document or analyze_document is a    *)
(* coroutine: it runs until an await, where other calls may run, and then  *)
(* goes on.  parse_document awaits parser.parse; analyze_document awaits   *)
(* the AI service up to three times.  A frame is the position of a         *)
(* caller's call with its arguments; the objects of a call are the parser  *)
(* instance and the result objects it has built so far.                    *)
(***************************************************************************)
\* the callers whose calls interleave
Callers == {"a", "b"}

\* who can own objects: a call, or the service object all calls share
Owners == Callers \cup {"service"}

\* the owner of the objects a call builds: they are local variables of the coroutine
owner_service(caller) == "service"

owner(caller) == caller

\* a caller with no call in flight
IdleFrame == [pc |-> "idle"]

\* no parser instance and no result object
NoObjects ==
    [parser |-> NoParser, edu_analysis |-> <<>>, ai_enhancement |-> <<>>,
     relationships |-> Return(<<>>)]

\* what the libraries of a parser class make of bytes that are not in its format
Unreadable(parser_class) ==
    CASE parser_class = "PDFParser" ->
            [fitz_open |-> Raise("FileDataError", EXC_FITZ), metadata |-> <<>>,
             pages |-> <<>>, toc |-> [raised |-> FALSE, is_list |-> TRUE, value |-> <<>>],
             widgets |-> Return(<<>>), pdfminer |-> Raise("PDFSyntaxError", EXC_PDFMINER)]
      [] parser_class = "DocxParser" ->
            [open |-> Raise("BadZipFile", EXC_DOCX), paragraphs |-> Return(<<>>),
             core_properties |-> Raise("KeyError", EXC_DOCX), tables_count |-> 0]
      [] parser_class = "ImageParser" ->
            [open |-> Raise("UnidentifiedImageError", EXC_PIL), convert |-> Return(<<>>),
             ocr |-> Return(<<>>)]
      [] parser_class = "MarkitdownParser" ->
            [init |-> Return(<<>>), create |-> Return(<<>>), write |-> Return(<<>>),
             convert |-> Raise("FileConversionException", EXC_MARKITDOWN),
             unlink |-> Return(<<>>)]
      [] parser_class = NoParser -> NoContent

\* what MarkItDown makes of bytes it converts to the text, and whether the temporary
\* file can be deleted afterwards
Converted(text, unlink) ==
    [init |-> Return(<<>>), create |-> Return(<<>>), write |-> Return(<<>>),
     convert |-> Return([text_content |-> text]), unlink |-> unlink]

\* an upload: its MIME type and, for each parser class, what the libraries of the class
\* make of its bytes
Upload(mimetype, readable) ==
    [mimetype |-> mimetype,
     content |-> [p \in ParserClasses \cup {NoParser} |->
                     IF p \in DOMAIN readable THEN readable[p] ELSE Unreadable(p)]]

\* the uploads of the concurrent calls: a PDF, a Word file whose temporary file is
\* deleted or not, a bitmap, and a file of a type no parser is registered for
Uploads ==
    {Upload(MIME_PDF \o MIME_PARAM_CHARSET,
            [PDFParser |-> OnePagePdf(EXPECTED_MIN_TEXT_LENGTH, Return(<<>>)),
             MarkitdownParser |-> Converted(LINE_PLAIN, Return(<<>>))]),
     Upload(MIME_DOCX,
            [DocxParser |-> [open |-> Return(<<>>), paragraphs |-> Return(<<>>),
                             core_properties |-> Raise("KeyError", EXC_DOCX),
                             tables_count |-> 0],
             MarkitdownParser |-> Converted(LINE_SYLLABUS, Return(<<>>))]),
     Upload(Upper(MIME_DOCX),
            [MarkitdownParser |->
                 Converted(LINE_EXAM, Raise("PermissionError", EXC_DISK))]),
     Upload(MIME_BMP,
            [ImageParser |-> [open |-> Return([width |-> 100, height |-> 100,
                                               format |-> "TIFF", mode |-> "L",
                                               info |-> <<>>]),
                              convert |-> Return(<<>>),
                              ocr |-> Return(LINE_WORKSHEET)]]),
     Upload(MIME_UNKNOWN, <<>>)}

\* the parse results and depths of the concurrent analyze_document calls
ConcurrentParseResults ==
    {ParsingResult([text |-> text]).value : text \in {WORKSHEET_TEXT, LINE_SYLLABUS}}
    \cup {ParsingResult([text |-> LINE_PLAIN,
                         optional_data |-> [error |-> MSG_PARSE_FAILED]]).value}

ConcurrentDepths == {"basic", "deep"}

\* what the AI service answers to a call that awaits it
ConcurrentReplies == {Return(RESPONSE_JSON), Raise("APIError", EXC_AI)}

\* parse_document up to its await: the parser class looked up for the normalized type
looked_up(d, upload) == get_parser(d, normalize(upload.mimetype))

\* parse_document for an unsupported type: it returns without an await
unsupported_outcome(upload) ==
    IF ParsingResult([text |-> <<>>,
                      error |-> MSG_UNSUPPORTED \o normalize(upload.mimetype)]).raised
    THEN ParsingResult([text |-> <<>>,
                        error |-> MSG_UNSUPPORTED \o normalize(upload.mimetype)])
    ELSE Return(to_dict(ParsingResult(
             [text |-> <<>>,
              error |-> MSG_UNSUPPORTED \o normalize(upload.mimetype)]).value))

\* parse_document after its await: result.to_dict() of what parser.parse gave
parsed_outcome(parser_class, upload) ==
    IF parse(parser_class, upload.content[parser_class]).raised
    THEN parse(parser_class, upload.content[parser_class])
    ELSE Return(to_dict(parse(parser_class, upload.content[parser_class]).value))

\* whether analyze_document asks for the relationship map
asks_relationships(call) ==
    call.analysis_depth = "deep" /\ call.parsing_result.error \in {None, <<>>}

\* the position of analyze_document after the reply to the await at pc
next_pc(call, pc) ==
    CASE pc = "enhancing" -> "depth"
      [] pc = "depth" -> IF asks_relationships(call) THEN "relating" ELSE "done"
      [] pc = "relating" -> "done"

\* the objects of analyze_document after the reply to the await at pc
objects_after(call, pc, mine, reply) ==
    CASE pc = "enhancing" ->
            [mine EXCEPT !.edu_analysis = analyze("AIService", call.parsing_result, reply)]
      [] pc = "depth" ->
            [mine EXCEPT !.ai_enhancement =
                perform_depth_specific_analysis(call.parsing_result, mine.edu_analysis,
                                                call.analysis_depth, reply)]
      [] pc = "relating" ->
            [mine EXCEPT !.relationships =
                analyze_content_relationships(call.parsing_result.text,
                                              mine.edu_analysis, reply)]

\* what analyze_document returns from the objects it has built
analysis_outcome(call, mine) ==
    Return(analyze_document_result(call.parsing_result, call.analysis_depth,
                                   mine.edu_analysis, mine.ai_enhancement,
                                   mine.relationships))

(***************************************************************************)
(* The operations as steps.                                                *)
(***************************************************************************)
\* the MIME type arguments of a lookup: every declared type, an undeclared one, and
\* spellings the registry does not hold
LookupMimeTypes ==
    DeclaredMimeTypes \cup {MIME_UNKNOWN, Upper(MIME_PDF), MIME_PDF \o <<" ">>, <<>>}

\* the call record while no call is in flight: the flow is single, so an operation
\* starts only when the one before it has returned and its result has been taken
NoCall == [op |-> "none"]

Init ==
    /\ parsers = <<>>
    /\ registered = <<>>
    /\ last = NoCall
    /\ tempfiles = {}
    /\ templates = DefaultTemplates
    /\ frames = [caller \in Callers |-> IdleFrame]
    /\ objects = [o \in Owners |-> NoObjects]

\* ParserRegistry.register(parser_class)
Register ==
    /\ last = NoCall
    /\ \E parser_class \in ParserClasses :
        /\ Len(registered) < MaxRegs
        /\ parsers' = RegistryAfterRegister(parsers, parser_class)
        /\ registered' = Append(registered, parser_class)
        /\ last' = [op |-> "register", parser_class |-> parser_class,
                out |-> Return(NoParser)]
        /\ UNCHANGED <<tempfiles, templates, frames, objects>>

\* ParserRegistry.get_parser(mimetype)
GetParser ==
    /\ last = NoCall
    /\ \E mimetype \in LookupMimeTypes :
        /\ last' = [op |-> "get_parser", mimetype |-> mimetype,
                out |-> Return(get_parser(parsers, mimetype))]
        /\ UNCHANGED <<parsers, registered, tempfiles, templates, frames, objects>>

\* ParserRegistry.get_supported_types()
GetSupportedTypes ==
    /\ last = NoCall
    /\ last' = [op |-> "get_supported_types",
            out |-> Return(get_supported_types(parsers))]
    /\ UNCHANGED <<parsers, registered, tempfiles, templates, frames, objects>>

\* DocumentParsingService.get_supported_mimetypes()
GetSupportedMimetypes ==
    /\ last = NoCall
    /\ last' = [op |-> "get_supported_mimetypes",
            out |-> Return(get_supported_mimetypes(parsers))]
    /\ UNCHANGED <<parsers, registered, tempfiles, templates, frames, objects>>

\* the temporary files after a call that leaves one behind or not
TempfilesAfter(leaves) ==
    IF leaves THEN tempfiles \cup {Cardinality(tempfiles) + 1} ELSE tempfiles

\* DocumentParsingService.parse_document(content, mimetype, filename)
ParseDocument ==
    /\ last = NoCall
    /\ \E mimetype \in MimeArguments :
        LET parser_class == get_parser(parsers, normalize(mimetype))
        IN  \E content \in ServiceContents(parser_class) :
                /\ leaves_file(parser_class, content)
                   => Cardinality(tempfiles) < MaxTempFiles
                /\ last' = [op |-> "parse_document", mimetype |-> mimetype,
                        content |-> content,
                        out |-> parse_document(parsers, content, mimetype)]
                /\ tempfiles' = TempfilesAfter(leaves_file(parser_class, content))
                /\ UNCHANGED <<parsers, registered, templates, frames, objects>>

\* PDFParser().parse(content, filename)
PdfParse ==
    /\ last = NoCall
    /\ \E content \in PdfContents :
        /\ last' = [op |-> "PDFParser.parse", content |-> content,
                out |-> PDFParser_parse(content)]
        /\ UNCHANGED <<parsers, registered, tempfiles, templates, frames, objects>>

\* DocxParser().parse(content, filename)
DocxParse ==
    /\ last = NoCall
    /\ \E content \in DocxContents :
        /\ last' = [op |-> "DocxParser.parse", content |-> content,
                out |-> DocxParser_parse(content)]
        /\ UNCHANGED <<parsers, registered, tempfiles, templates, frames, objects>>

\* ImageParser().parse(content, filename)
ImageParse ==
    /\ last = NoCall
    /\ \E content \in ImageContents :
        /\ last' = [op |-> "ImageParser.parse", content |-> content,
                out |-> ImageParser_parse(content)]
        /\ UNCHANGED <<parsers, registered, tempfiles, templates, frames, objects>>

\* MarkitdownParser().parse(content, filename)
MarkitdownParse ==
    /\ last = NoCall
    /\ \E content \in MarkitdownContents :
        /\ md_leaves_file(content) => Cardinality(tempfiles) < MaxTempFiles
        /\ last' = [op |-> "MarkitdownParser.parse", content |-> content,
                out |-> MarkitdownParser_parse(content)]
        /\ tempfiles' = TempfilesAfter(md_leaves_file(content))
        /\ UNCHANGED <<parsers, registered, templates, frames, objects>>

\* EducationalContentAnalyzer(ai_service).analyze(ParsingResult(text=text))
Analyze ==
    /\ last = NoCall
    /\ \E text \in AnalyzerTexts, ai_service \in AiServices :
        \E reply \in IF ai_service = NoService THEN {NoReply} ELSE AiReplies :
            LET parsing_result == ParsingResult([text |-> text]).value
            IN  /\ last' = [op |-> "analyze", text |-> text, ai_service |-> ai_service,
                            reply |-> reply,
                            ai_calls |-> analyze_calls(ai_service, parsing_result),
                            out |-> Return(analyze(ai_service, parsing_result, reply))]
                /\ UNCHANGED <<parsers, registered, tempfiles, templates, frames, objects>>

\* the analyzer that extracted questions from a text analyses another text and then
\* the first text once more; the AI service, if any, answers each call as it likes
AnalyzeAgain ==
    /\ last.op = "analyze"
    /\ "questions" \in DOMAIN last.out.value.educational_elements
    /\ \E between \in BetweenTexts :
        \E reply \in IF last.ai_service = NoService THEN {NoReply} ELSE AiReplies :
            LET parsing_result == ParsingResult([text |-> last.text]).value
                other_result   == ParsingResult([text |-> between]).value
            IN  /\ last' = [op |-> "analyze_again", text |-> last.text,
                            ai_service |-> last.ai_service, first |-> last.out,
                            between |-> between,
                            between_out |->
                                Return(analyze(last.ai_service, other_result, reply)),
                            reply |-> reply,
                            out |-> Return(analyze(last.ai_service, parsing_result, reply))]
                /\ UNCHANGED <<parsers, registered, tempfiles, templates, frames, objects>>

\* the page estimate of DocxParser._extract_structure for a document with total_chars
\* characters in its paragraphs and tables_count tables
EstimatePages ==
    /\ last = NoCall
    /\ \E chars \in PageCharCounts, tables_count \in 0..MaxTables :
        /\ last' = [op |-> "estimate_pages", total_chars |-> chars,
                    tables_count |-> tables_count,
                    out |-> Return(estimated_pages(chars, tables_count))]
        /\ UNCHANGED <<parsers, registered, tempfiles, templates, frames, objects>>

\* AIDocumentAnalyzer(ai_service).analyze_document(parsing_result, analysis_depth); the
\* AI service answers each of its calls as it likes
AnalyzeDocument ==
    /\ last = NoCall
    /\ \E parsing_result \in ParseResults, analysis_depth \in Depths :
        \E replies \in [1..3 -> AiReplies] :
            /\ last' = [op |-> "analyze_document", parsing_result |-> parsing_result,
                        analysis_depth |-> analysis_depth, replies |-> replies]
                       @@ analyze_document(parsing_result, analysis_depth, replies)
            /\ UNCHANGED <<parsers, registered, tempfiles, templates, frames, objects>>

\* prompt_library.add_template(template)
AddTemplate ==
    /\ last = NoCall
    /\ Len(templates) < Len(DefaultTemplates) + MaxAdded
    /\ \E template \in AddableTemplates :
        /\ templates' = add_template(templates, template)
        /\ last' = [op |-> "add_template", template |-> template, out |-> Return(None)]
        /\ UNCHANGED <<parsers, registered, tempfiles, frames, objects>>

\* OpenAIService(api_key).process_text(text, options, template_name, template_vars)
ProcessText ==
    /\ last = NoCall
    /\ \E text \in ProcessTexts, options \in ProcessOptions :
        \E template_name \in TemplateNames, template_vars \in TemplateVars :
            \E reply \in CompletionReplies :
                /\ last' = [op |-> "process_text", text |-> text, options |-> options,
                            template_name |-> template_name,
                            template_vars |-> template_vars, reply |-> reply]
                           @@ process_text(templates, text, options, template_name,
                                           template_vars, reply)
                /\ UNCHANGED <<parsers, registered, tempfiles, templates, frames, objects>>

\* the frames after a step of the caller's call: a call of another caller that is waiting
\* at an await has been interleaved with
Stepped(caller, frame) ==
    [c \in Callers |->
        IF c = caller THEN frame
        ELSE IF frames[c].pc \notin {"idle", "done"}
        THEN [frames[c] EXCEPT !.interleaved = TRUE]
        ELSE frames[c]]

\* parse_document from its start to 'await parser.parse(content, filename)', or to its
\* return for an unsupported type
ParseDocumentStart ==
    /\ last = NoCall
    /\ \E caller \in Callers, upload \in Uploads :
        /\ frames[caller].pc = "idle"
        /\ IF looked_up(parsers, upload) = NoParser
           THEN /\ frames' = Stepped(caller, [pc |-> "done", op |-> "parse_document",
                                              upload |-> upload, replies |-> <<>>,
                                              out |-> unsupported_outcome(upload),
                                              interleaved |-> FALSE])
                /\ UNCHANGED objects
           ELSE /\ frames' = Stepped(caller, [pc |-> "parsing", op |-> "parse_document",
                                              upload |-> upload, replies |-> <<>>,
                                              out |-> Return(<<>>),
                                              interleaved |-> FALSE])
                /\ objects' = [objects EXCEPT ![owner(caller)].parser =
                                   looked_up(parsers, upload)]
        /\ UNCHANGED <<parsers, registered, last, tempfiles, templates>>

\* parse_document from the await to its return: the parser instance parses, the result
\* is converted with to_dict()
ParseDocumentFinish ==
    /\ last = NoCall
    /\ \E caller \in Callers :
        /\ frames[caller].pc = "parsing"
        /\ leaves_file(objects[owner(caller)].parser,
                       frames[caller].upload.content[objects[owner(caller)].parser])
           => Cardinality(tempfiles) < MaxTempFiles
        /\ frames' = Stepped(caller,
                         [frames[caller] EXCEPT
                             !.pc = "done",
                             !.out = parsed_outcome(objects[owner(caller)].parser,
                                                    frames[caller].upload)])
        /\ tempfiles' = TempfilesAfter(
                            leaves_file(objects[owner(caller)].parser,
                                        frames[caller].upload.content[
                                            objects[owner(caller)].parser]))
        /\ UNCHANGED <<parsers, registered, last, templates, objects>>

\* analyze_document from its start to the first await of the AI service
AnalyzeDocumentStart ==
    /\ last = NoCall
    /\ \E caller \in Callers :
        \E parsing_result \in ConcurrentParseResults, analysis_depth \in ConcurrentDepths :
            /\ frames[caller].pc = "idle"
            /\ frames' = Stepped(caller, [pc |-> "enhancing", op |-> "analyze_document",
                                          parsing_result |-> parsing_result,
                                          analysis_depth |-> analysis_depth,
                                          replies |-> <<>>, out |-> Return(<<>>),
                                          interleaved |-> FALSE])
            /\ UNCHANGED <<parsers, registered, last, tempfiles, templates, objects>>

\* analyze_document from the reply of the AI service to the next await or to its return
AiReply ==
    /\ last = NoCall
    /\ \E caller \in Callers, reply \in ConcurrentReplies :
        /\ frames[caller].pc \in {"enhancing", "depth", "relating"}
        /\ objects' = [objects EXCEPT ![owner(caller)] =
                           objects_after(frames[caller], frames[caller].pc, @, reply)]
        /\ frames' = Stepped(caller,
                         [frames[caller] EXCEPT
                             !.pc = next_pc(frames[caller], @),
                             !.replies = Append(@, reply),
                             !.out = IF next_pc(frames[caller], frames[caller].pc) = "done"
                                     THEN analysis_outcome(frames[caller],
                                                           objects'[owner(caller)])
                                     ELSE @])
        /\ UNCHANGED <<parsers, registered, last, tempfiles, templates>>

\* the caller takes the outcome of its call; the objects of the call are gone
Collect ==
    /\ last = NoCall
    /\ \E caller \in Callers :
        /\ frames[caller].pc = "done"
        /\ frames' = [frames EXCEPT ![caller] = IdleFrame]
        /\ objects' = [objects EXCEPT ![owner(caller)] = NoObjects]
        /\ UNCHANGED <<parsers, registered, last, tempfiles, templates>>

\* the caller takes the result of the call that returned or raised
Discard ==
    /\ last # NoCall
    /\ last' = NoCall
    /\ UNCHANGED <<parsers, registered, tempfiles, templates, frames, objects>>

(***************************************************************************)
(* Specifications.  Spec is the whole program from an empty registry; the  *)
(* others are its parts: the registry while the parser modules are being   *)
(* imported, the service once the imports are done, and the parsers.       *)
(***************************************************************************)
NextRegistry == Register \/ GetParser \/ GetSupportedTypes \/ Discard

SpecRegistry == Init /\ [][NextRegistry]_vars

\* the registration histories a serving process starts from
StartupHistories == SeqUpTo(ParserClasses, MaxStartup) \cup {ImportOrder}

InitService ==
    /\ registered \in StartupHistories
    /\ parsers = RegistryOf(registered)
    /\ last = NoCall
    /\ tempfiles = {}
    /\ templates = DefaultTemplates
    /\ frames = [caller \in Callers |-> IdleFrame]
    /\ objects = [o \in Owners |-> NoObjects]

NextService == ParseDocument \/ GetSupportedMimetypes \/ Discard

SpecService == InitService /\ [][NextService]_vars

\* the process while the parsers package is being imported: the modules of DocxParser
\* and ImageParser have registered their parsers, those of the others have not yet
InitImporting ==
    /\ registered = SubSeq(ImportOrder, 1, 2)
    /\ parsers = RegistryOf(registered)
    /\ last = NoCall
    /\ tempfiles = {}
    /\ templates = DefaultTemplates
    /\ frames = [caller \in Callers |-> IdleFrame]
    /\ objects = [o \in Owners |-> NoObjects]

\* the registry and the service in one process: registrations and calls in any order
NextRegistryService ==
    Register \/ GetParser \/ GetSupportedTypes \/ GetSupportedMimetypes \/ ParseDocument
    \/ Discard

SpecRegistryService == InitImporting /\ [][NextRegistryService]_vars

NextParsers == PdfParse \/ DocxParse \/ ImageParse \/ MarkitdownParse \/ Discard

SpecParsers == Init /\ [][NextParsers]_vars

NextEdu == Analyze \/ AnalyzeAgain \/ Discard

SpecEdu == Init /\ [][NextEdu]_vars

NextPages == EstimatePages \/ Discard

SpecPages == Init /\ [][NextPages]_vars

NextAi == AnalyzeDocument \/ Discard

SpecAi == Init /\ [][NextAi]_vars

\* the serving process once the parsers package is imported: no call in flight
InitConcurrent ==
    /\ registered = ImportOrder
    /\ parsers = RegistryOf(registered)
    /\ last = NoCall
    /\ tempfiles = {}
    /\ templates = DefaultTemplates
    /\ frames = [caller \in Callers |-> IdleFrame]
    /\ objects = [o \in Owners |-> NoObjects]

NextConcurrent ==
    ParseDocumentStart \/ ParseDocumentFinish \/ AnalyzeDocumentStart \/ AiReply \/ Collect

SpecConcurrent == InitConcurrent /\ [][NextConcurrent]_vars

NextOpenAi == AddTemplate \/ ProcessText \/ Discard

SpecOpenAi == Init /\ [][NextOpenAi]_vars

Next ==
    NextRegistry \/ NextService \/ NextRegistryService \/ NextParsers \/ NextEdu
     \/ NextPages \/ NextAi \/ NextOpenAi
    \/ NextConcurrent

Spec == Init /\ [][Next]_vars

(***************************************************************************)
(* Properties.                                                             *)
(***************************************************************************)

ParserOps ==
    {"PDFParser.parse", "DocxParser.parse", "ImageParser.parse", "MarkitdownParser.parse"}

\* C1: parse_document called with a MIME type for which the registry holds no parser
\* never raises: it returns a mapping with text "", success false and the error
\* "Unsupported document type: <normalized mimetype>".
C1_UnsupportedTypeReturnsError ==
    (last.op = "parse_document"
     /\ get_parser(parsers, normalize(last.mimetype)) = NoParser)
    => /\ ~last.out.raised
       /\ last.out.value.text = <<>>
       /\ last.out.value.success = FALSE
       /\ last.out.value.error = MSG_UNSUPPORTED \o normalize(last.mimetype)

\* whether the library call that opens or converts the document raised in the call
LibraryThrows(call) ==
    CASE call.op = "PDFParser.parse" -> call.content.fitz_open.raised
      [] call.op = "DocxParser.parse" -> call.content.open.raised
      [] call.op = "ImageParser.parse" -> call.content.open.raised
      [] call.op = "MarkitdownParser.parse" ->
            ~call.content.init.raised /\ ~call.content.create.raised
            /\ ~call.content.write.raised /\ call.content.convert.raised

\* C2: parse of each of the four format parsers never raises, and when the extraction
\* library throws, parse returns a result with a non-null error and text "".
C2_ParsersNeverRaise ==
    last.op \in ParserOps
    => /\ ~last.out.raised
       /\ LibraryThrows(last) => /\ last.out.value.error # None
                                 /\ last.out.value.text = <<>>

\* the text of the primary and of the fallback extraction of a PDF, and their lengths
\* as PDFParser.parse measures them
PrimaryText(content) == full_text(content.pages)

FallbackText(content) == content.pdfminer.value

L1(content) == Len(Strip(PrimaryText(content)))

L2(content) == Len(Strip(FallbackText(content)))

\* the text the PDF fallback rule selects when neither extraction throws
SelectedText(content) ==
    IF L1(content) < EXPECTED_MIN_TEXT_LENGTH /\ L2(content) > L1(content)
    THEN FallbackText(content)
    ELSE PrimaryText(content)

\* neither extraction method throws on the PDF
NeitherThrows(content) ==
    /\ ~content.fitz_open.raised
    /\ \A i \in 1..Len(content.pages) : ~content.pages[i].raised
    /\ ~content.pdfminer.raised

\* C3: when PDFParser.parse ends with a final text shorter than 100 characters, neither
\* extraction having thrown, it returns a result with success false, pages >= 1, an error
\* mentioning "scanned or image-based" and the text that was found; when the final text
\* reaches 100 characters the result has no error.
C3_ShortTextIsReturnedWithWarning ==
    (last.op = "PDFParser.parse" /\ NeitherThrows(last.content))
    => /\ ~last.out.raised
       /\ last.out.value.text = SelectedText(last.content)
       /\ IF Len(Strip(SelectedText(last.content))) < EXPECTED_MIN_TEXT_LENGTH
          THEN /\ ~success(last.out.value)
               /\ last.out.value.pages >= 1
               /\ Contains(last.out.value.error, STR_SCANNED)
          ELSE last.out.value.error = None

\* C4: the PDF fallback rule: with a primary text of length L1 and a fallback text of
\* length L2, neither method throwing, the text of the result is the fallback text if
\* L1 < 100 and L2 > L1, and the primary text if L1 >= 100 (the fallback is not
\* consulted) or L2 <= L1.
C4_LongerTextWins ==
    (last.op = "PDFParser.parse" /\ ~last.content.fitz_open.raised)
    => IF L1(last.content) >= EXPECTED_MIN_TEXT_LENGTH
       THEN /\ ~last.out.raised
            /\ last.out.value.text = PrimaryText(last.content)
       ELSE ~last.content.pdfminer.raised
            => /\ ~last.out.raised
               /\ last.out.value.text =
                      IF L2(last.content) > L1(last.content)
                      THEN FallbackText(last.content)
                      ELSE PrimaryText(last.content)

\* C5: when the primary PDF extraction throws, PDFParser.parse returns a result built
\* from the pdfminer extraction alone: its text with an error describing the fallback
\* if that text is not empty, text "" and a non-null error if it is empty or pdfminer
\* throws too; no exception reaches the caller.
C5_PrimaryFailureFallsBack ==
    (last.op = "PDFParser.parse" /\ last.content.fitz_open.raised)
    => /\ ~last.out.raised
       /\ last.out.value.error # None
       /\ IF ~last.content.pdfminer.raised /\ L2(last.content) > 0
          THEN /\ last.out.value.text = FallbackText(last.content)
               /\ StartsWith(last.out.value.error, MSG_USING_FALLBACK)
          ELSE last.out.value.text = <<>>

\* the MIME types declared by the parsers of the register calls made so far
DeclaredBy(history) ==
    UNION {Range(supported_mimetypes(history[i])) : i \in 1..Len(history)}

\* C6: after any sequence of register calls, get_parser(m) for every m that
\* get_supported_types() returns is a parser class whose supported_mimetypes() contains
\* m, and get_parser(m) is none for every m that no registered parser declared.
C6_LookupReturnsDeclaringParser ==
    /\ \A m \in Range(get_supported_types(parsers)) :
          /\ get_parser(parsers, m) \in ParserClasses
          /\ m \in Range(supported_mimetypes(get_parser(parsers, m)))
    /\ \A m \in LookupMimeTypes :
          m \notin DeclaredBy(registered) => get_parser(parsers, m) = NoParser
    /\ last.op = "get_parser"
       => IF last.mimetype \in DeclaredBy(registered)
          THEN /\ last.out.value \in ParserClasses
               /\ last.mimetype \in Range(supported_mimetypes(last.out.value))
          ELSE last.out.value = NoParser

\* a lookup of a type that two registered parsers declare has returned one of them
C6_Witness ==
    /\ last.op = "get_parser"
    /\ last.mimetype = MIME_DOCX
    /\ last.out.value = "DocxParser"
    /\ {"DocxParser", "MarkitdownParser", "ImageParser"} \subseteq Range(registered)

\* the parser class of the most recent register call that declares m, none if there is none
LastDeclaring(history, m) ==
    LET hits == {i \in 1..Len(history) : m \in Range(supported_mimetypes(history[i]))}
    IN  IF hits = {} THEN NoParser
        ELSE history[CHOOSE i \in hits : \A j \in hits : j <= i]

\* C7: last-registered-wins: get_parser(m) is the parser class of the most recent
\* register call whose supported_mimetypes() contains m, and get_supported_types() is
\* the union, without duplicates, of the MIME types declared by the parsers registered
\* so far.
C7_LastRegisteredWins ==
    /\ \A m \in LookupMimeTypes : get_parser(parsers, m) = LastDeclaring(registered, m)
    /\ Range(get_supported_types(parsers)) = DeclaredBy(registered)
    /\ Len(get_supported_types(parsers)) = Cardinality(DeclaredBy(registered))
    /\ last.op = "get_parser"
       => last.out.value = LastDeclaring(registered, last.mimetype)
    /\ last.op = "get_supported_types"
       => /\ Range(last.out.value) = DeclaredBy(registered)
          /\ Len(last.out.value) = Cardinality(DeclaredBy(registered))

\* PDFParser was registered, MarkitdownParser after it, and the lookup of the PDF type
\* has returned MarkitdownParser
C7_Witness ==
    /\ last.op = "get_parser"
    /\ last.mimetype = MIME_PDF
    /\ last.out.value = "MarkitdownParser"
    /\ \E i, j \in 1..Len(registered) :
          i < j /\ registered[i] = "PDFParser" /\ registered[j] = "MarkitdownParser"

\* the spellings of a MIME type that differ from it only in letter case, in surrounding
\* whitespace and in parameters after the first ";"
SpellingsOf(base) ==
    {Spelling(base, case, lead, trail, param) :
        case \in LetterCases, lead \in 0..MaxPad, trail \in 0..MaxPad, param \in MimeParams}

\* C8: parse_document normalizes the MIME type before the lookup: two arguments that
\* differ only in letter case, in parameters after the first ";" or in surrounding
\* whitespace select the same parser, or both yield the unsupported-type error that
\* quotes the same normalized type; and normalizing is idempotent.
C8_SpellingsAreEquivalent ==
    last.op = "parse_document"
    => /\ normalize(normalize(last.mimetype)) = normalize(last.mimetype)
       /\ \A base \in ServiceMimeTypes :
             last.mimetype \in SpellingsOf(base)
             => \A other \in SpellingsOf(base) :
                   LET out == parse_document(parsers, last.content, other)
                   IN  /\ get_parser(parsers, normalize(other))
                            = get_parser(parsers, normalize(last.mimetype))
                       /\ get_parser(parsers, normalize(other)) = NoParser
                          => /\ ~last.out.raised /\ ~out.raised
                             /\ last.out.value.error = MSG_UNSUPPORTED \o base
                             /\ out.value.error = MSG_UNSUPPORTED \o base

\* the keyword rules of the classification in their order
KeywordRules ==
    <<[terms |-> SYLLABUS_TERMS, type |-> SYLLABUS],
      [terms |-> EXAM_TERMS, type |-> EXAM],
      [terms |-> WORKSHEET_TERMS, type |-> WORKSHEET],
      [terms |-> LESSON_PLAN_TERMS, type |-> LESSON_PLAN],
      [terms |-> LECTURE_TERMS, type |-> LECTURE_NOTES]>>

\* the keyword rules with a keyword in the text, whatever the letter case
MatchingRules(text) ==
    {r \in 1..Len(KeywordRules) : AnyIn(KeywordRules[r].terms, Lower(text))}

\* C9: the classification is first-match-wins over the lower-cased text in the order
\* syllabus, exam, worksheet, lesson plan, lecture: a text with keywords of several rules
\* gets the type of the earliest rule that matches, wherever the keywords stand.
C9_EarliestRuleWins ==
    (last.op = "analyze" /\ MatchingRules(last.text) # {})
    => LET r == CHOOSE r \in MatchingRules(last.text) :
                    \A q \in MatchingRules(last.text) : r <= q
       IN  last.out.value.document_type = KeywordRules[r].type

\* a text whose first line has an exam keyword and whose second line has a syllabus
\* keyword has been classified as a syllabus
C9_Witness ==
    /\ last.op = "analyze"
    /\ last.text = Join(<<LINE_EXAM, LINE_SYLLABUS>>, "\n")
    /\ last.out.value.document_type = SYLLABUS

\* the lines of the text that start with a question number, as the classifier sees them
NumberedLines(text) ==
    LET lines == Split(Lower(text), "\n")
    IN  {i \in 1..Len(lines) : first_question_pattern(lines[i]) # 0}

\* a text like that of Scenario 1: a learning-objectives keyword, in any letter case, and
\* no keyword of the five keyword rules
ObjectivesOnly(text) ==
    AnyIn(LEARNING_OBJECTIVES, Lower(text)) /\ MatchingRules(text) = {}

C11_ObjectivesAreTheListItems ==
    (last.op = "analyze" /\ last.text \in SyllabusTexts)
    => /\ last.out.value.document_type = SYLLABUS
       /\ last.out.value.educational_elements.objectives = <<ITEM_UNDERSTAND, ITEM_APPLY>>

\* a text the question-count rule classifies as an exam: no keyword of the keyword rules,
\* at least three numbered lines and a scoring keyword
ExamByQuestionCount(text) ==
    /\ MatchingRules(text) = {}
    /\ Cardinality(NumberedLines(text)) >= QUESTION_COUNT_THRESHOLD
    /\ AnyIn(SCORING_TERMS, Lower(text))

\* C12: for a text classified EXAM by the question-count rule the result of analyze has
\* one question record per numbered question, each with the options found for it; the
\* text of Scenario 2 yields EXAM with 3 question records of 3 options each.
C12_ExamHasQuestionRecords ==
    (last.op = "analyze" /\ ExamByQuestionCount(last.text))
    => /\ last.out.value.document_type = EXAM
       /\ "questions" \in DOMAIN last.out.value.educational_elements
       /\ LET questions == last.out.value.educational_elements.questions
          IN  /\ Len(questions) = Cardinality(NumberedLines(last.text))
              /\ last.text = SCENARIO_2_TEXT
                 => \A i \in 1..Len(questions) : Len(questions[i].options) = 3

HeuristicKeys == {"document_type", "educational_elements", "structure_analysis"}

\* C15: when an AI service is supplied and its call during the enhancement throws, the
\* result of analyze has the key ai_analysis_error and not ai_enhanced_analysis, its
\* document_type, educational_elements and structure_analysis are those of an analysis
\* without AI failure, and with an AI service exactly one of the two keys is present.
C15_AiFailureIsReportedAsError ==
    (last.op = "analyze" /\ last.ai_service # NoService)
    => LET result    == last.out.value
           heuristic == analyze(NoService, ParsingResult([text |-> last.text]).value, NoReply)
       IN  /\ ~last.out.raised
           /\ ("ai_analysis_error" \in DOMAIN result)
                  # ("ai_enhanced_analysis" \in DOMAIN result)
           /\ \A key \in HeuristicKeys : result[key] = heuristic[key]
           /\ last.reply.raised
              => /\ "ai_analysis_error" \in DOMAIN result
                 /\ "ai_enhanced_analysis" \notin DOMAIN result

\* C19: an analyzer built without an AI service sends no prompt and returns a result with
\* exactly the keys document_type, educational_elements and structure_analysis.
C19_NoAiServiceHeuristicsOnly ==
    (last.op = "analyze" /\ last.ai_service = NoService)
    => /\ last.ai_calls = <<>>
       /\ ~last.out.raised
       /\ DOMAIN last.out.value = HeuristicKeys

\* a worksheet with questions was analysed by an analyzer without an AI service
C19_Witness ==
    /\ last.op = "analyze"
    /\ last.ai_service = NoService
    /\ last.out.value.document_type = WORKSHEET
    /\ last.out.value.educational_elements.questions # <<>>

\* the reply of the AI service that is text but not JSON
NotJson(reply) == ~reply.raised /\ json_loads(reply.value).raised

\* the key under which the analysis of a depth returns a reply that is not JSON
RawTextKey(analysis_depth) ==
    IF analysis_depth = "basic" THEN "summary"
    ELSE IF analysis_depth = "deep" THEN "detailed_analysis"
    ELSE "analysis"

\* the keys every result of analyze_document has
DocumentKeys == {"document_type", "structure", "educational_elements", "ai_insights"}

\* C14: a reply of the AI service that is not JSON is never fatal: the enhancement of the
\* educational analysis returns it under raw_response, the basic analysis under summary,
\* the standard analysis under analysis and the deep analysis under detailed_analysis,
\* and analyze_document returns normally.
C14_MalformedReplyIsWrapped ==
    last.op = "analyze_document"
    => /\ NotJson(last.replies[1])
          => /\ last.edu_analysis.ai_enhanced_analysis
                    = [raw_response |-> last.replies[1].value]
             /\ ~last.out.raised
       /\ NotJson(last.replies[2])
          => /\ ~last.out.raised
             /\ DOMAIN last.out.value.ai_insights = {RawTextKey(last.analysis_depth)}
             /\ last.out.value.ai_insights[RawTextKey(last.analysis_depth)]
                    = last.replies[2].value

\* a deep analysis in which the replies to the enhancement and to the analysis of the
\* depth were not JSON
C14_Witness ==
    /\ last.op = "analyze_document"
    /\ last.analysis_depth = "deep"
    /\ NotJson(last.replies[1])
    /\ NotJson(last.replies[2])
    /\ "detailed_analysis" \in DOMAIN last.out.value.ai_insights

\* a deep analysis of a parse result without error
DeepWithoutError ==
    /\ last.op = "analyze_document"
    /\ last.analysis_depth = "deep"
    /\ last.parsing_result.error = None

\* C16: in a deep analyze_document on a parse result without error, when the call for
\* the relationship map throws, no exception reaches the caller and the result has
\* ai_insights filled in and an errors list with exactly one entry.
C16_RelationshipFailureIsListed ==
    (DeepWithoutError /\ last.replies[3].raised)
    => /\ ~last.out.raised
       /\ last.out.value.ai_insights # <<>>
       /\ "errors" \in DOMAIN last.out.value
       /\ Len(last.out.value.errors) = 1

\* the replies in which every call is answered with JSON
AllJson == [i \in 1..3 |-> Return(RESPONSE_JSON)]

\* the replies with the i-th kept and the others answered with JSON
OnlyReply(replies, i) == [AllJson EXCEPT ![i] = replies[i]]

\* C17: for every depth and every set of AI calls that throw, analyze_document does not
\* raise and returns document_type, structure, educational_elements and ai_insights;
\* the prompts sent are those of a run without failure; a failed call shows only in its
\* own part of the result; document_type and educational_elements are those of a run
\* without failure.
C17_PartialFailure ==
    last.op = "analyze_document"
    => LET clean  == analyze_document(last.parsing_result, last.analysis_depth, AllJson)
           result == last.out.value
       IN  /\ ~last.out.raised
           /\ DocumentKeys \subseteq DOMAIN result
           /\ last.calls = clean.calls
           /\ result.document_type = clean.out.value.document_type
           /\ result.educational_elements = clean.out.value.educational_elements
           /\ result.structure = clean.out.value.structure
           /\ result.ai_insights
                  = analyze_document(last.parsing_result, last.analysis_depth,
                                     OnlyReply(last.replies, 2)).out.value.ai_insights
           /\ ("error" \in DOMAIN result.ai_insights) <=> last.replies[2].raised
           /\ DOMAIN result = DOMAIN clean.out.value
           /\ "content_relationships" \in DOMAIN result
              => /\ result.content_relationships
                        = analyze_document(last.parsing_result, last.analysis_depth,
                              OnlyReply(last.replies, 3)).out.value.content_relationships
                 /\ ("error" \in DOMAIN result.content_relationships)
                        <=> last.replies[3].raised

\* a deep analysis in which all three calls of the AI service threw
C17_Witness ==
    /\ DeepWithoutError
    /\ \A i \in 1..3 : last.replies[i].raised
    /\ Len(last.calls) = 3
    /\ last.out.value.ai_insights = [error |-> EXC_AI]

\* C18: the relationship map is asked for exactly when the depth is deep and the parse
\* result has no error: otherwise no relationship prompt is sent and the result has
\* neither content_relationships nor errors; for a deep analysis without parse error
\* the result has content_relationships or errors.
C18_RelationshipsOnlyForDeep ==
    last.op = "analyze_document"
    => LET asked == \E i \in 1..Len(last.calls) :
                        last.calls[i].template = "relationships"
       IN  /\ asked <=> DeepWithoutError
           /\ ~DeepWithoutError
              => /\ "content_relationships" \notin DOMAIN last.out.value
                 /\ "errors" \notin DOMAIN last.out.value
           /\ DeepWithoutError
              => \/ "content_relationships" \in DOMAIN last.out.value
                 \/ "errors" \in DOMAIN last.out.value

\* a deep analysis of a parse result with an error: no relationship map
C18_Witness ==
    /\ last.op = "analyze_document"
    /\ last.analysis_depth = "deep"
    /\ last.parsing_result.error # None
    /\ Len(last.calls) = 2
    /\ DOMAIN last.out.value = DocumentKeys

\* n / d rounded to the nearest integer, a half rounded up, for naturals n and d > 0
RoundHalfUp(n, d) == (2 * n + d) \div (2 * d)

\* C20: the page estimate of the Word parser is the nearest integer to
\* total_chars / 3000 + 0.5 * tables_count, a fractional part of 0.5 or more rounded up,
\* and at least 1, for all character counts and table counts.
C20_PageEstimateIsNearestInteger ==
    last.op = "estimate_pages"
    => /\ last.out.value >= 1
       /\ last.out.value
              = Max(1, RoundHalfUp(2 * last.total_chars + CHARS_PER_PAGE * last.tables_count,
                                   2 * CHARS_PER_PAGE))

\* "limited or no extractable text"
STR_LIMITED_TEXT ==
    <<"l", "i", "m", "i", "t", "e", "d", " ", "o", "r", " ", "n", "o", " ", "e", "x", "t", "r",
      "a", "c", "t", "a", "b", "l", "e", " ", "t", "e", "x", "t">>

\* the parse of an image whose recognition returned a text
OcrReturned(call) ==
    /\ call.op = "ImageParser.parse"
    /\ ~call.content.open.raised
    /\ ~call.content.convert.raised
    /\ ~call.content.ocr.raised

\* C21: when the text recognised in an image is shorter than 20 characters,
\* ImageParser.parse returns a result that is not a success, whose error contains
\* "limited or no extractable text" and whose text is the text found; with 20 or more
\* characters the error of the result is None.
C21_ShortImageTextIsReported ==
    OcrReturned(last)
    => /\ ~last.out.raised
       /\ last.out.value.text = last.content.ocr.value
       /\ IF Len(last.content.ocr.value) < 20
          THEN /\ ~success(last.out.value)
               /\ last.out.value.error # None
               /\ Contains(last.out.value.error, STR_LIMITED_TEXT)
          ELSE last.out.value.error = None

\* C22: on every exit path of MarkitdownParser.parse (library not initialised, failure
\* while writing the staged content, conversion failure, success) no temporary file
\* created by the call exists when it returns: where the operating system does not
\* refuse the deletion, the call leaves the set of temporary files as it found it.
C22_NoTempFileRemains ==
    [][(last'.op = "MarkitdownParser.parse" /\ ~last'.content.unlink.raised)
       => tempfiles' = tempfiles]_vars

\* the lines of the text that start with a question number of one of the four forms
MarkerLines(text) ==
    LET lines == Split(text, "\n")
    IN  {i \in 1..Len(lines) : first_question_pattern(lines[i]) # 0}

\* C25: a text with no keyword of the five keyword rules and at least 3 lines that start
\* with a question number of any of the four forms (numeric, Chinese numeral, Roman
\* numeral, "第N題") is classified EXAM when it has a scoring keyword and WORKSHEET
\* otherwise; with fewer than 3 such lines it is UNKNOWN.
C25_QuestionCountRule ==
    (last.op = "analyze" /\ MatchingRules(last.text) = {})
    => last.out.value.document_type
          = IF Cardinality(MarkerLines(last.text)) >= QUESTION_COUNT_THRESHOLD
            THEN IF AnyIn(SCORING_TERMS, Lower(last.text)) THEN EXAM ELSE WORKSHEET
            ELSE UNKNOWN

\* the questions list of the analysis that has just been made
QuestionsOf(call) == call.out.value.educational_elements.questions

\* the index of the j-th line that matches a question-number pattern
NthMarker(text, j) ==
    CHOOSE i \in MarkerLines(text) : Cardinality({m \in MarkerLines(text) : m <= i}) = j

\* the text of the record opened by line m once the lines up to line n are scanned:
\* what follows the marker, then every non-blank line that is not taken as an option
RECURSIVE TextThrough(_, _, _)
TextThrough(lines, m, n) ==
    IF n <= m
    THEN Strip(SubSeq(lines[m],
                      match_question_number(first_question_pattern(lines[m]), lines[m]).end + 1,
                      Len(lines[m])))
    ELSE IF match_option(lines[n]).matched \/ Strip(lines[n]) = <<>>
    THEN TextThrough(lines, m, n - 1)
    ELSE TextThrough(lines, m, n - 1) \o <<"\n">> \o Strip(lines[n])

\* the last line that belongs to the record of the j-th marker line
RecordEnd(text, j) ==
    IF j = Cardinality(MarkerLines(text)) THEN Len(Split(text, "\n"))
    ELSE NthMarker(text, j + 1) - 1

\* C26: the questions extracted from a worksheet are one record per line that matches a
\* question-number pattern, in document order, the record that is open at the end of the
\* text included; the j-th record carries the number of the j-th marker line and its
\* text is what follows that marker plus the non-blank, non-option lines up to the next
\* marker line, so lines before the first marker are in no record and a line is in the
\* text of the most recently opened record only.
C26_OneRecordPerMarkerLine ==
    (last.op = "analyze" /\ "questions" \in DOMAIN last.out.value.educational_elements)
    => /\ Len(QuestionsOf(last)) = Cardinality(MarkerLines(last.text))
       /\ \A j \in 1..Len(QuestionsOf(last)) :
            /\ QuestionsOf(last)[j].number
                 = match_question_number(
                       first_question_pattern(Split(last.text, "\n")[NthMarker(last.text, j)]),
                       Split(last.text, "\n")[NthMarker(last.text, j)]).group
            /\ QuestionsOf(last)[j].text
                 = TextThrough(Split(last.text, "\n"), NthMarker(last.text, j),
                               RecordEnd(last.text, j))

\* a worksheet whose first line is no marker, with two records, the first of which has
\* taken a later line into its text
C26_Witness ==
    /\ last.op = "analyze"
    /\ "questions" \in DOMAIN last.out.value.educational_elements
    /\ Len(QuestionsOf(last)) = 2
    /\ 1 \notin MarkerLines(last.text)
    /\ Contains(QuestionsOf(last)[1].text, <<"\n">> \o LINE_PLAIN)
    /\ ~Contains(QuestionsOf(last)[2].text, LINE_PLAIN)

\* an option label followed by ".", ")" or the ideographic comma, after leading blanks:
\* the label and what follows the punctuation
OptionLine(line) ==
    LET at == SkipSpace(line, 1)
    IN  IF /\ at + 1 <= Len(line)
           /\ line[at] \in OptionLabels
           /\ line[at + 1] \in {".", ")", "U+3001"}
        THEN [matched |-> TRUE, label |-> <<line[at]>>,
              text |-> Strip(SubSeq(line, at + 2, Len(line)))]
        ELSE [matched |-> FALSE, label |-> <<>>, text |-> <<>>]

\* the options of the record opened by line m once the lines up to line n are scanned
RECURSIVE OptionsThrough(_, _, _)
OptionsThrough(lines, m, n) ==
    IF n <= m THEN <<>>
    ELSE IF OptionLine(lines[n]).matched
    THEN Append(OptionsThrough(lines, m, n - 1),
                [label |-> OptionLine(lines[n]).label, text |-> OptionLine(lines[n]).text])
    ELSE OptionsThrough(lines, m, n - 1)

\* C27: in the questions extracted from a worksheet, every line after a marker line that
\* is no marker line itself and is an option label followed by ".", ")" or the
\* ideographic comma is an entry {label, text} of the options of the most recently
\* opened record, in document order, and is not part of that record's text.
C27_OptionLinesBecomeOptions ==
    (last.op = "analyze" /\ "questions" \in DOMAIN last.out.value.educational_elements)
    => \A j \in 1..Cardinality(MarkerLines(last.text)) :
        /\ j <= Len(QuestionsOf(last))
        /\ QuestionsOf(last)[j].options
             = OptionsThrough(Split(last.text, "\n"), NthMarker(last.text, j),
                              RecordEnd(last.text, j))
        /\ \A n \in NthMarker(last.text, j) + 1 .. RecordEnd(last.text, j) :
             OptionLine(Split(last.text, "\n")[n]).matched
             => ~Contains(QuestionsOf(last)[j].text, Strip(Split(last.text, "\n")[n]))

\* the prompts of the enhancement of the educational analysis, one per document type
EnhancementTemplates == {SYLLABUS, WORKSHEET, EXAM, "general"}

\* the prompts of the analysis of a depth
DepthTemplates == {"basic", "standard", "deep"}

\* C28: every run of analyze_document sends its prompts in one fixed order: the
\* enhancement of the educational analysis, then the analysis of the depth, then, for a
\* deep analysis of a parse result without error only, the relationship map; each is
\* sent once, so there are at most three AI calls, and a failed call is not sent again:
\* the prompts are those of a run in which no call fails.
C28_LinearPipeline ==
    last.op = "analyze_document"
    => /\ Len(last.calls) = (IF DeepWithoutError THEN 3 ELSE 2)
       /\ last.calls[1].template \in EnhancementTemplates
       /\ last.calls[2].template \in DepthTemplates
       /\ Len(last.calls) = 3 => last.calls[3].template = "relationships"
       /\ last.calls
            = analyze_document(last.parsing_result, last.analysis_depth, AllJson).calls

\* a deep analysis whose first two calls failed and whose third call was still made, once
C28_Witness ==
    /\ DeepWithoutError
    /\ last.replies[1].raised
    /\ last.replies[2].raised
    /\ ~last.replies[3].raised
    /\ Len(last.calls) = 3
    /\ last.calls[3].template = "relationships"

\* C29: once the parser modules have registered in the import order of the package, the
\* registry maps application/pdf to PDFParser, both Word types and image/jpeg,
\* image/png, image/gif and image/tiff to MarkitdownParser and image/bmp to
\* ImageParser; no MIME type, as looked up directly or as normalized by the parsing
\* service, selects DocxParser.
C29_RegistryAfterImport ==
    registered = ImportOrder
    => /\ get_parser(parsers, MIME_PDF) = "PDFParser"
       /\ \A mimetype \in {MIME_DOCX, MIME_DOC, MIME_JPEG, MIME_PNG, MIME_GIF, MIME_TIFF} :
            get_parser(parsers, mimetype) = "MarkitdownParser"
       /\ get_parser(parsers, MIME_BMP) = "ImageParser"
       /\ \A mimetype \in LookupMimeTypes : get_parser(parsers, mimetype) # "DocxParser"
       /\ \A mimetype \in MimeArguments :
            get_parser(parsers, normalize(mimetype)) # "DocxParser"
       /\ last.op = "get_parser" => last.out.value # "DocxParser"

\* after the imports, the lookup of the Word type that DocxParser declares first has
\* returned MarkitdownParser
C29_Witness ==
    /\ registered = ImportOrder
    /\ last.op = "get_parser"
    /\ last.mimetype = MIME_DOCX
    /\ last.out.value = "MarkitdownParser"

\* C30: a step changes the registry only if it is a register call; get_parser,
\* get_supported_types, get_supported_mimetypes and parse_document, for a supported and
\* for an unsupported type, leave it as it was; register(P) keeps every existing key at
\* its position, keeps the entry of every key that P does not declare, and adds only
\* keys that P declares.
C30_RegistryWrittenOnlyByRegister ==
    [][/\ parsers' # parsers => last'.op = "register"
       /\ last'.op \in {"get_parser", "get_supported_types", "get_supported_mimetypes",
                        "parse_document"}
          => parsers' = parsers
       /\ last'.op = "register"
          => /\ Len(parsers') >= Len(parsers)
             /\ \A i \in 1..Len(parsers) :
                  /\ parsers'[i].k = parsers[i].k
                  /\ parsers[i].k \notin Range(supported_mimetypes(last'.parser_class))
                     => parsers'[i] = parsers[i]
             /\ \A i \in (Len(parsers) + 1)..Len(parsers') :
                  parsers'[i].k \in Range(supported_mimetypes(last'.parser_class))
             /\ \A mimetype \in LookupMimeTypes \ Range(supported_mimetypes(last'.parser_class)) :
                  get_parser(parsers', mimetype) = get_parser(parsers, mimetype)]_vars

\* a parse_document call for a type no parser is registered for has returned after
\* MarkitdownParser has registered over the entries of DocxParser and ImageParser
C30_Witness ==
    /\ last.op = "parse_document"
    /\ get_parser(parsers, normalize(last.mimetype)) = NoParser
    /\ registered = SubSeq(ImportOrder, 1, 3)
    /\ parsers = RegistryOf(registered)
    /\ get_parser(parsers, MIME_BMP) = "ImageParser"
    /\ get_parser(parsers, MIME_PNG) = "MarkitdownParser"

\* the template process_text looks up for a call, and what formatting it gives
TemplateOf(call) == get_template(templates, call.template_name)

FormattedFor(call) == format(TemplateOf(call).value, call.template_vars[1])

\* one completion call was made, with these messages
SentOnce(call, messages) == Len(call.calls) = 1 /\ call.calls[1].messages = messages

\* C24: process_text with a template name makes exactly one completion call with the two
\* default messages (system, then user with the direct text) when the template is not
\* in the library, when formatting raises KeyError or ValueError, or when template_vars
\* is None or empty; when the template formats successfully, the one call carries the
\* formatted messages of the template and the text is not used.
C24_TemplateFallback ==
    (last.op = "process_text" /\ Truthy(last.template_name))
    => IF ~DictTruthy(last.template_vars) \/ TemplateOf(last).raised
       THEN SentOnce(last, default_messages(last.text))
       ELSE IF FormattedFor(last).raised
       THEN FormattedFor(last).exc.type \in {"KeyError", "ValueError"}
            => SentOnce(last, default_messages(last.text))
       ELSE SentOnce(last, FormattedFor(last).value)

\* the replies a call got, followed by no reply for the awaits it did not reach
PaddedReplies(replies) == [i \in 1..3 |-> IF i <= Len(replies) THEN replies[i] ELSE NoReply]

\* what the finished call of a frame returns when it is the only call in the process
Alone(call) ==
    IF call.op = "parse_document"
    THEN parse_document(RegistryOf(ImportOrder),
                        call.upload.content[looked_up(RegistryOf(ImportOrder), call.upload)],
                        call.upload.mimetype)
    ELSE analyze_document(call.parsing_result, call.analysis_depth,
                          PaddedReplies(call.replies)).out

\* C23: concurrent calls do not interfere.  However two parse_document and
\* analyze_document calls interleave at their awaits once registration has finished,
\* a call that has returned has returned what it returns when it runs alone, the parser
\* instance and the result objects are the call's own (the shared service object holds
\* none), and the registry the calls read is not written.
C23_CallsDoNotInterfere ==
    /\ \A caller \in Callers :
           frames[caller].pc = "done" => frames[caller].out = Alone(frames[caller])
    /\ objects["service"] = NoObjects
    /\ parsers = RegistryOf(ImportOrder)

\* a parse_document call with a parser instance and a deep analyze_document call with
\* three awaits have both returned after running interleaved with each other
C23_Witness ==
    \E c1 \in Callers, c2 \in Callers :
        /\ frames[c1].pc = "done" /\ frames[c2].pc = "done"
        /\ frames[c1].op = "parse_document" /\ frames[c1].interleaved
        /\ objects[c1].parser = "MarkitdownParser"
        /\ frames[c2].op = "analyze_document" /\ frames[c2].interleaved
        /\ Len(frames[c2].replies) = 3
        /\ ~frames[c2].out.raised
=============================================================================
